---- MODULE Spec2Model ----
(***************************************************************************)
(* chimera-md: the HTML result cache (src/result_cache.rs), the request    *)
(* path that uses it (src/main.rs, serve_markdown_file) and the change     *)
(* broadcast of the file watcher (src/file_manager.rs) with its three      *)
(* listeners.                                                              *)
(*                                                                         *)
(* usize arithmetic is modelled as the release profile computes it:        *)
(* modulo 2^UsizeBits (the word is scaled down so that TLC can hold it).   *)
(* With wrapping arithmetic nothing panics while a lock is held, so the    *)
(* lock is never poisoned and the `let Ok(..) else` branches are not       *)
(* taken.  The field CachedPage.when is written and never read by the      *)
(* program (only by the Debug formatter) and is left out.                  *)
(***************************************************************************)
EXTENDS Integers, Naturals, Sequences, FiniteSets, TLC

\* ---------------------------------------------------------------- bounds
\* UsizeBits scales the 64-bit usize down, BroadcastCapacity scales the
\* capacity of the broadcast channel (32, file_manager.rs 29) down so that a
\* lagging receiver is within reach; MaxCacheSize is the configured
\* max_cache_size.  The others bound how much happens in one run.
UsizeBits == 5
MaxVersion == 2
MaxRequests == 3
MaxBatches == 3
MaxCacheBatches == 1
MaxCacheSize == 2
BroadcastCapacity == 2
MaxQueue == 3
CommitEvery == 2
MaxBlocks == 3
MaxLinks == 4
MaxSegments == 3
MaxRanges == 3
MaxSnippet == 4

\* ------------------------------------------------------ program constants
SignalCapacity == 2
WorkQueueCapacity == 32

Modulus == 2 ^ UsizeBits

\* Option<T>: None is the empty sequence, Some(x) the sequence of x alone.
None == <<>>
Some(x) == <<x>>

\* ------------------------------------------------------------------ paths
\* A path is the sequence of the tokens of its file name; "." separates.
MdA == <<"a", ".", "md">>
MdB == <<"b", ".", "md">>
Tmpl == <<"t", ".", "html">>
Css == <<"s", ".", "css">>
Toml == <<"i", ".", "toml">>
Plain == <<"LICENSE">>

MdPaths == {MdA, MdB}

Handlers == {1, 2}
Subscribers == {"rc", "fti", "isc"}

\* std::path::Path::extension: the part after the last "." of the file name;
\* none when there is no "." or the only "." is the first token.
Extension(p) ==
    LET dots == {i \in 1..Len(p) : p[i] = "."}
    IN  IF dots = {} THEN None
        ELSE LET last == CHOOSE i \in dots : \A j \in dots : j <= i
             IN  IF last = 1 THEN None ELSE Some(SubSeq(p, last + 1, Len(p)))

\* --------------------------------------------------------------- the disk
\* disk[p] is the version of file p: each modification gives the file a new,
\* larger modification time and a new content.  A file's modtime is its
\* version, and the page rendered from it is RenderedPage(p, version).
get_modtime(d, p) == d[p]

\* The byte length of the page rendered from version v of file p.
PageLen(p, v) ==
    IF p = MdA THEN (IF v = 1 THEN 2 ELSE 1)
    ELSE (IF v = 1 THEN 2 ELSE 3)

\* serve_markdown_file, lines 535-544: the html that reading, parsing and
\* rendering version v of file p gives, as PageLen bytes that each name the
\* file and the version they were rendered from.
RenderedPage(p, v) == [i \in 1..PageLen(p, v) |-> <<p[1], v>>]

\* ------------------------------------------------------ usize arithmetic
WrapSub(a, b) == (a - b + Modulus) % Modulus
WrapAdd(a, b) == (a + b) % Modulus

\* ------------------------------------------ IndexMap<PathBuf, CachedPage>
\* The map is the sequence of its entries in insertion order.
IndexOf(c, p) ==
    IF \E i \in 1..Len(c) : c[i].path = p
    THEN CHOOSE i \in 1..Len(c) : c[i].path = p
    ELSE 0

ContainsKey(c, p) == IndexOf(c, p) # 0

MapGet(c, p) == c[IndexOf(c, p)]

\* IndexMap::insert: an existing key keeps its position and gets the new
\* value; a new key is appended.
MapInsert(c, e) ==
    IF ContainsKey(c, e.path)
    THEN [c EXCEPT ![IndexOf(c, e.path)] = e]
    ELSE Append(c, e)

SplitOffAs(c, at) == SubSeq(c, 1, Len(c) - at)

\* IndexMap::split_off(at): the entries from index at (0-based) on.
SplitOff(c, at) == SubSeq(c, at + 1, Len(c))

RECURSIVE PrefixSize(_, _)
PrefixSize(c, k) ==
    IF k = 0 THEN 0 ELSE PrefixSize(c, k - 1) + Len(c[k].html)

TotalSize(c) == PrefixSize(c, Len(c))

VARIABLES
    disk,           \* [MdPaths -> 1..MaxVersion]
    cache,          \* WrappedCache.cache
    current_size,   \* WrappedCache.current_size
    signal_q,       \* the mpsc channel of CacheAction
    req,            \* one record per request handler
    requests,       \* number of requests started
    file_events,    \* the debouncer's channel to directory_watcher
    batches,        \* number of batches the debouncer emitted
    watcher,        \* the directory_watcher task
    bc_log,         \* every path published on the broadcast channel
    rx,             \* one broadcast receiver per subscriber
    work_queue,     \* the scanner's work queue, fed by the index listener
    last_added,     \* history: per path the html of the last add, while
                    \* nothing has disturbed it (see Disturb)
    changed,        \* history: per path, a change event for the cached path
                    \* was published and no get has been issued since
    on_disk,        \* the Markdown files that exist under the document root
    file_times,     \* DocumentScanner.file_times.files
    ft_toml,        \* the modtime map as the file ft.toml holds it
    index_writer,   \* the documents the next commit would publish
    index,          \* the committed documents, which searches and restarts see
    scanner,        \* the DocumentScanner task
    feed,           \* scan_directory: the Markdown files still to be sent
    seen_deleted,   \* history: paths the scanner has found deleted and that
                    \* have not existed since
    md,             \* the Markdown document handed to parse_markdown
    events,         \* the parser's events not yet shown to check_event
    scraper,        \* the DocumentScraper
    html_content,   \* the html body, before and after the anchors are added
    stage,          \* the position of the request in parse and render
    crumb_path,     \* get_breadcrumbs: path
    index_file,     \* get_breadcrumbs: skip
    breadcrumbs,    \* get_breadcrumbs: the trail it returned
    siblings,       \* the Markdown files now in the directory of the document
    subfolders,     \* the folders now in that directory, and whether each
                    \* holds Markdown
    file_manager,   \* FileManager.folders, as FileManager::new filled it
    peers,          \* find_peers: the PeerInfo it returned
    http_req,       \* a request with what its handler will meet
    response,       \* the response the handler returned
    highlights,     \* the highlight ranges of a snippet
    spans,          \* normalize_ranges: the ranges it returned
    poisoned,       \* the RwLock of the result cache is poisoned
    compactor       \* the cache_compactor task: "running" or "exited"

vars == <<disk, cache, current_size, signal_q, req, requests, file_events,
          batches, watcher, bc_log, rx, work_queue, last_added, changed,
          on_disk, file_times, ft_toml, index_writer, index, scanner, feed,
          seen_deleted, md, events, scraper, html_content, stage,
          crumb_path, index_file, breadcrumbs, siblings, subfolders,
          file_manager, peers, http_req, response, highlights, spans,
          poisoned, compactor>>

cacheVars == <<cache, current_size, signal_q, last_added>>
watchVars == <<file_events, batches, watcher, bc_log, rx, work_queue>>
scanVars == <<on_disk, file_times, ft_toml, index_writer, index, scanner, feed,
              seen_deleted>>
parseVars == <<md, events, scraper, html_content, stage>>
crumbVars == <<crumb_path, index_file, breadcrumbs>>
peerVars == <<siblings, subfolders, file_manager, peers>>
httpVars == <<http_req, response>>
rangeVars == <<highlights, spans>>
lockVars == <<poisoned, compactor>>
extVars == <<peerVars, httpVars, rangeVars, lockVars>>
auxVars == <<scanVars, parseVars, crumbVars, extVars>>
serverVars == <<cacheVars, req, requests, file_events, batches, watcher, bc_log,
                rx, changed>>

IdleReq == [pc |-> "idle", path |-> None, modtime |-> 0, html |-> None,
            result |-> None, prev |-> None, expect |-> FALSE,
            after_change |-> FALSE]

\* History: a get in flight on one of the paths ps no longer follows an
\* undisturbed add.
Disturb(r, ps) ==
    [h \in Handlers |->
        IF r[h].path \in ps THEN [r[h] EXCEPT !.expect = FALSE] ELSE r[h]]

KeysOf(c) == {c[i].path : i \in 1..Len(c)}

\* ------------------------------------------------------------------ Init
\* A subscriber's receiver: not subscribed yet, or open since the channel
\* held `tail` values.
NoRx == [state |-> "none", next |-> 1, since |-> 0]
OpenRx(tail) == [state |-> "open", next |-> tail + 1, since |-> tail]

\* The files exist at their first version, the cache is empty
\* (ResultCache::new), the watcher task waits for its first batch.
InitServer ==
    /\ disk = [p \in MdPaths |-> 1]
    /\ cache = <<>>
    /\ current_size = 0
    /\ signal_q = <<>>
    /\ req = [h \in Handlers |-> IdleReq]
    /\ requests = 0
    /\ file_events = <<>>
    /\ batches = 0
    /\ watcher = [pc |-> "recv", events |-> <<>>]
    /\ bc_log = <<>>
    /\ work_queue = <<>>
    /\ last_added = [p \in MdPaths |-> None]
    /\ changed = [p \in MdPaths |-> FALSE]

\* The full text index before scan_directory has been called.
NoTimes == [p \in MdPaths |-> None]
ScannerOff == [pc |-> "off", path |-> None, modtime |-> None,
               docs_since_last_commit |-> 0]

ScanIdle ==
    /\ on_disk = MdPaths
    /\ file_times = NoTimes
    /\ ft_toml = NoTimes
    /\ index_writer = {}
    /\ index = {}
    /\ scanner = ScannerOff
    /\ feed = <<>>
    /\ seen_deleted = {}

\* No document is being parsed.
NewScraper == [internal_links |-> <<>>, code_languages |-> <<>>,
               metadata |-> {}, title |-> None, text_collector |-> None,
               has_code_blocks |-> FALSE, starts_with_heading |-> FALSE,
               has_readable_text |-> FALSE]

ParseIdle ==
    /\ md = <<>>
    /\ events = <<>>
    /\ scraper = NewScraper
    /\ html_content = <<>>
    /\ stage = "off"

\* No breadcrumbs are being built.
CrumbIdle ==
    /\ crumb_path = <<>>
    /\ index_file = <<>>
    /\ breadcrumbs = None

\* find_peers has not been called.
PeerIdle ==
    /\ siblings = {}
    /\ subfolders = {}
    /\ file_manager = [files |-> <<>>, folders |-> <<>>]
    /\ peers = None

\* No request is being handled.
HttpIdle ==
    /\ http_req = None
    /\ response = None

\* normalize_ranges has not been called.
RangeIdle ==
    /\ highlights = <<>>
    /\ spans = None

\* The lock is sound and the compactor task runs (ResultCache::new, 43-55).
LockIdle ==
    /\ poisoned = FALSE
    /\ compactor = "running"

InitCommon ==
    /\ InitServer
    /\ ScanIdle
    /\ ParseIdle
    /\ CrumbIdle
    /\ PeerIdle
    /\ HttpIdle
    /\ RangeIdle
    /\ LockIdle

\* ------------------------------------------------ ResultCache::get (90-112)
IsFreshAs(res, modtime) == TRUE

\* Line 98: a hit needs the stored modtime to equal the modtime get read.
IsFresh(res, modtime) == res.modtime = modtime

HitHtmlAs(c, p) == c[1].html

\* Lines 97-99: the html a hit returns.
HitHtml(c, p) == MapGet(c, p).html

\* get, line 91: the request arrives and get reads the file's modtime.
GetModtime(h, p) ==
    /\ req[h].pc = "idle"
    /\ requests < MaxRequests
    /\ requests' = requests + 1
    /\ req' = [req EXCEPT ![h] = [IdleReq EXCEPT !.pc = "get_lookup",
                                    !.path = p,
                                    !.modtime = get_modtime(disk, p),
                                    !.expect = (last_added[p] # None),
                                    !.after_change = changed[p]]]
    /\ changed' = [changed EXCEPT ![p] = FALSE]
    /\ UNCHANGED <<disk, cacheVars, watchVars, auxVars>>

\* get, lines 93-105 and 111: the lookup under the read lock.
GetLookup(h) ==
    /\ req[h].pc = "get_lookup"
    /\ LET p == req[h].path
       IN  IF ContainsKey(cache, p)
           THEN IF IsFresh(MapGet(cache, p), req[h].modtime)
                THEN req' = [req EXCEPT ![h].pc = "done",
                                        ![h].result = Some(HitHtml(cache, p))]
                ELSE req' = [req EXCEPT ![h].pc = "send_clean"]
           ELSE req' = [req EXCEPT ![h].pc = "read_file"]
    /\ UNCHANGED <<disk, requests, cacheVars, watchVars, changed, auxVars>>

\* get, lines 106-111: the stale entry makes get send Clean and miss.
GetSendClean(h) ==
    /\ req[h].pc = "send_clean"
    /\ Len(signal_q) < SignalCapacity
    /\ signal_q' = Append(signal_q, "Clean")
    /\ req' = [req EXCEPT ![h].pc = "read_file"]
    /\ UNCHANGED <<disk, requests, cache, current_size, last_added, watchVars, changed, auxVars>>

\* serve_markdown_file, lines 532-545: on a miss the file, which exists, is
\* read and rendered.
ReadFile(h) ==
    /\ req[h].pc = "read_file"
    /\ req' = [req EXCEPT ![h].pc = "add_modtime",
                          ![h].html = RenderedPage(req[h].path, disk[req[h].path])]
    /\ UNCHANGED <<disk, requests, cacheVars, watchVars, changed, auxVars>>

\* ------------------------------------------------- ResultCache::add (62-88)
\* add, line 65.
AddModtime(h) ==
    /\ req[h].pc = "add_modtime"
    /\ req' = [req EXCEPT ![h].pc = "add_store",
                          ![h].modtime = get_modtime(disk, req[h].path)]
    /\ UNCHANGED <<disk, requests, cacheVars, watchVars, changed, auxVars>>

NewSizeAs(size, prev, html) == WrapAdd(size, Len(html))

\* add, lines 77-80: the counter after the insert returned prev.
NewSize(size, prev, html) ==
    WrapAdd(IF prev = None THEN size ELSE WrapSub(size, Len(prev[1].html)),
            Len(html))

\* add, lines 66-82: the insert and the counter update under the write lock.
AddStore(h) ==
    /\ req[h].pc = "add_store"
    /\ LET p == req[h].path
           page == [path |-> p, modtime |-> req[h].modtime, html |-> req[h].html]
           prev == IF ContainsKey(cache, p) THEN Some(MapGet(cache, p)) ELSE None
           size == NewSize(current_size, prev, page.html)
       IN  /\ cache' = MapInsert(cache, page)
           /\ current_size' = size
           /\ req' = [Disturb(req, {p}) EXCEPT
                                 ![h].pc = IF size > MaxCacheSize
                                           THEN "send_compact" ELSE "done",
                                 ![h].prev = prev]
           /\ last_added' = [last_added EXCEPT ![p] =
                                IF req[h].modtime = disk[p] THEN Some(page.html) ELSE None]
    /\ UNCHANGED <<disk, requests, signal_q, watchVars, changed, auxVars>>

\* add, lines 83-87.
AddSendCompact(h) ==
    /\ req[h].pc = "send_compact"
    /\ Len(signal_q) < SignalCapacity
    /\ signal_q' = Append(signal_q, "Compact")
    /\ req' = [req EXCEPT ![h].pc = "done"]
    /\ UNCHANGED <<disk, requests, cache, current_size, last_added, watchVars, changed, auxVars>>

\* serve_markdown_file, lines 575-576: the response leaves.
Respond(h) ==
    /\ req[h].pc = "done"
    /\ req' = [req EXCEPT ![h] = IdleReq]
    /\ UNCHANGED <<disk, requests, cacheVars, watchVars, changed, auxVars>>

\* A file under the document root is modified on disk.
ModifyFile(p) ==
    /\ disk[p] < MaxVersion
    /\ disk' = [disk EXCEPT ![p] = disk[p] + 1]
    /\ last_added' = [last_added EXCEPT ![p] = None]
    /\ req' = Disturb(req, {p})
    /\ UNCHANGED <<cache, current_size, signal_q, requests, watchVars, changed, auxVars>>

\* --------------------------------------------- cache_compactor (134-168)
\* Compact, lines 145-154: the index at which the loop breaks and the bytes
\* it has summed by then; without a break the index stays 0 and every entry
\* has been summed.
BreakAt(c, target) == {i \in 0..(Len(c) - 1) : PrefixSize(c, i + 1) > target}

SplitIndex(c, target) ==
    IF BreakAt(c, target) = {} THEN 0
    ELSE CHOOSE i \in BreakAt(c, target) : \A j \in BreakAt(c, target) : i <= j

PruneSize(c, target) ==
    IF BreakAt(c, target) = {} THEN TotalSize(c)
    ELSE PrefixSize(c, SplitIndex(c, target) + 1)

\* Compact, lines 140-158.
CompactorCompact ==
    /\ signal_q # <<>>
    /\ Head(signal_q) = "Compact"
    /\ signal_q' = Tail(signal_q)
    /\ LET target_trim_size == WrapSub(current_size, MaxCacheSize)
           split_index == SplitIndex(cache, target_trim_size)
           prune_size == PruneSize(cache, target_trim_size)
           gone == KeysOf(cache) \ KeysOf(SplitOff(cache, split_index))
       IN  /\ cache' = SplitOff(cache, split_index)
           /\ current_size' = WrapSub(current_size, prune_size)
           /\ last_added' = [p \in MdPaths |->
                                IF p \in gone THEN None ELSE last_added[p]]
           /\ req' = Disturb(req, gone)
    /\ UNCHANGED <<disk, requests, watchVars, changed, auxVars>>

\* IndexMap::clear, as ResultCache::clear (120-126) and Clean (159-165) call
\* it: the map is emptied; the size counter is not touched.
Cleared(c) == <<>>

\* Clean, lines 159-165.
CompactorClean ==
    /\ signal_q # <<>>
    /\ Head(signal_q) = "Clean"
    /\ signal_q' = Tail(signal_q)
    /\ cache' = Cleared(cache)
    /\ last_added' = [p \in MdPaths |-> None]
    /\ req' = Disturb(req, MdPaths)
    /\ UNCHANGED <<disk, current_size, requests, watchVars, changed, auxVars>>

\* ------------------------------------ the result cache with a poisoned lock
\* cache_compactor, line 146, in a build with overflow checks: the counter
\* is below max_size, the subtraction panics while the write lock is held.
\* The task ends, its receiver is dropped with the signals still queued,
\* and std::sync::RwLock hands Err to every later read() and write().
\* (Line 156 cannot panic first: without a wrapped counter prune_size is at
\* most what the map holds, which the counter never undercounts.)
CompactorPanics ==
    /\ compactor = "running"
    /\ signal_q # <<>>
    /\ Head(signal_q) = "Compact"
    /\ current_size < MaxCacheSize
    /\ signal_q' = <<>>
    /\ compactor' = "exited"
    /\ poisoned' = TRUE
    /\ UNCHANGED <<cache, current_size, last_added, disk, req, requests,
                   watchVars, changed, scanVars, parseVars, crumbVars,
                   peerVars, httpVars, rangeVars>>

\* get, lines 94-96: read() fails and get returns None, a miss.
GetPoisoned(h) ==
    /\ req[h].pc = "get_lookup"
    /\ poisoned
    /\ req' = [req EXCEPT ![h].pc = "read_file"]
    /\ UNCHANGED <<disk, requests, cacheVars, watchVars, changed, auxVars>>

\* add, lines 67-70: write() fails and add returns.
AddPoisoned(h) ==
    /\ req[h].pc = "add_store"
    /\ poisoned
    /\ req' = [req EXCEPT ![h].pc = "done"]
    /\ UNCHANGED <<disk, requests, cacheVars, watchVars, changed, auxVars>>

\* tokio::sync::mpsc: send returns Err at once, also to a sender that
\* waits for room, when the receiver has been dropped.
ReceiverDropped(task) == task = "exited"

\* A mutant of SendFails: a send whose receiver is gone keeps waiting.
SendFailsAs(h) ==
    /\ req[h].pc \in {"send_clean", "send_compact"}
    /\ ReceiverDropped(compactor)
    /\ UNCHANGED vars

\* get, lines 107-109, and add, lines 84-86: the send fails, a warning is
\* logged and the call goes on.
SendFails(h) ==
    /\ req[h].pc \in {"send_clean", "send_compact"}
    /\ ReceiverDropped(compactor)
    /\ req' = [req EXCEPT ![h].pc = IF req[h].pc = "send_clean"
                                    THEN "read_file" ELSE "done"]
    /\ UNCHANGED <<disk, requests, cacheVars, watchVars, changed, auxVars>>

\* listen_for_changes (170-182) has received the path of a Markdown file or
\* of a template and calls clear (120-126); with the lock poisoned clear
\* returns at once.
ClearOnChange ==
    /\ ~poisoned
    /\ cache # <<>>
    /\ cache' = Cleared(cache)
    /\ last_added' = [p \in MdPaths |-> None]
    /\ req' = Disturb(req, MdPaths)
    /\ UNCHANGED <<disk, current_size, signal_q, requests, watchVars, changed,
                   auxVars>>

\* ------------------------------------------------ the broadcast channel
\* tokio::sync::broadcast: bc_log holds every value sent, the channel keeps
\* the last BroadcastCapacity of them.  A receiver is at position next.
ReceiverCount == Cardinality({s \in Subscribers : rx[s].state = "open"})

Oldest == IF Len(bc_log) > BroadcastCapacity
          THEN Len(bc_log) - BroadcastCapacity + 1 ELSE 1

\* Receiver::recv has a value to return, or the Lagged error.
CanRecv(s) == rx[s].state = "open" /\ rx[s].next <= Len(bc_log)
Lagged(s) == rx[s].next < Oldest

\* FileManager::subscribe (172-174).
Subscribe(s) ==
    /\ rx[s].state = "none"
    /\ rx' = [rx EXCEPT ![s] = OpenRx(Len(bc_log))]
    /\ UNCHANGED <<disk, cacheVars, req, requests, file_events, batches,
                   watcher, bc_log, work_queue, changed, auxVars>>

\* ----------------------------------------- directory_watcher (177-204)
\* A debounced event: its kind, DebouncedEvent.path and Event.paths.
Ev(k, p, ps) == [kind |-> k, path |-> p, paths |-> ps]

Events == { Ev("Modify", MdA, <<MdA>>),
            Ev("Create", MdB, <<MdB>>),
            Ev("Remove", Css, <<Css>>),
            Ev("Modify", Tmpl, <<Tmpl, Toml>>),
            Ev("Access", MdA, <<MdA>>),
            Ev("Create", Plain, <<Plain>>) }

\* What the debouncer sends: Ok(events) or Err(errors).
Ok(es) == [ok |-> TRUE, events |-> es]
Err == [ok |-> FALSE, events |-> <<>>]

Batches ==
    {Ok(<<e>>) : e \in Events}
       \cup {Ok(<<Ev("Modify", MdA, <<MdA>>), Ev("Remove", Css, <<Css>>)>>), Err}

\* The debouncer hands a batch of events, or an error, to the watcher task.
DebouncerEmit(b) ==
    /\ batches < MaxBatches
    /\ batches' = batches + 1
    /\ file_events' = Append(file_events, b)
    /\ UNCHANGED <<disk, cacheVars, req, requests, watcher, bc_log, rx,
                   work_queue, changed, auxVars>>

\* Line 181: the loop takes the next batch; an error batch ends the loop.
WatcherRecv ==
    /\ watcher.pc = "recv"
    /\ file_events # <<>>
    /\ file_events' = Tail(file_events)
    /\ IF ~Head(file_events).ok
       THEN watcher' = [pc |-> "stopped", events |-> <<>>]
       ELSE watcher' = [pc |-> IF Head(file_events).events = <<>>
                               THEN "recv" ELSE "publish",
                        events |-> Head(file_events).events]
    /\ UNCHANGED <<disk, cacheVars, req, requests, batches, bc_log, rx,
                   work_queue, changed, auxVars>>

\* Lines 184-200: the paths one event publishes.
Published(e) ==
    IF e.kind \in {"Create", "Remove"} THEN <<e.path>>
    ELSE IF e.kind = "Modify" THEN e.paths
    ELSE <<>>

\* Lines 182-201: one event of the batch.  A send with no receiver is an
\* error, and `?` returns it from the task.
WatcherPublish ==
    /\ watcher.pc = "publish"
    /\ LET e == Head(watcher.events)
           rest == Tail(watcher.events)
       IN  IF Published(e) # <<>> /\ ReceiverCount = 0
           THEN /\ watcher' = [pc |-> "failed", events |-> <<>>]
                /\ UNCHANGED <<bc_log, changed, auxVars>>
           ELSE /\ bc_log' = bc_log \o Published(e)
                /\ changed' = [p \in MdPaths |->
                      \/ changed[p]
                      \/ /\ rx["rc"].state = "open"
                         /\ ContainsKey(cache, p)
                         /\ \E i \in 1..Len(Published(e)) : Published(e)[i] = p]
                /\ watcher' = [pc |-> IF rest = <<>> THEN "recv" ELSE "publish",
                               events |-> rest]
    /\ UNCHANGED <<disk, cacheVars, req, requests, file_events, batches, rx,
                   work_queue, auxVars>>

\* ---------------------------------------------------------- the listeners
\* `while let Ok(path) = rx.recv().await`: a Lagged error ends the listener
\* and drops its receiver.
ListenerLagged(s) ==
    /\ CanRecv(s)
    /\ Lagged(s)
    /\ rx' = [rx EXCEPT ![s].state = "closed"]
    /\ UNCHANGED <<disk, cacheVars, req, requests, file_events, batches,
                   watcher, bc_log, work_queue, changed, auxVars>>

ClearsCacheAs(path) == Extension(path) = Some(<<"html">>)

\* result_cache.rs 176-177.
ClearsCache(path) ==
    Extension(path) = Some(<<"md">>) \/ Extension(path) = Some(<<"html">>)

\* result_cache.rs listen_for_changes (170-182) with ResultCache::clear.
RcListen ==
    /\ CanRecv("rc")
    /\ ~Lagged("rc")
    /\ rx' = [rx EXCEPT !["rc"].next = rx["rc"].next + 1]
    /\ IF ClearsCache(bc_log[rx["rc"].next])
       THEN /\ cache' = Cleared(cache)
            /\ last_added' = [p \in MdPaths |-> None]
            /\ req' = Disturb(req, MdPaths)
       ELSE UNCHANGED <<cache, last_added, req>>
    /\ UNCHANGED <<disk, current_size, signal_q, requests, file_events,
                   batches, watcher, bc_log, work_queue, changed, auxVars>>

\* full_text_index.rs listen_for_changes (274-287): an .md path is forwarded
\* to the scanner; the send waits while the work queue is full.
FtiListen ==
    /\ CanRecv("fti")
    /\ ~Lagged("fti")
    /\ LET path == bc_log[rx["fti"].next]
       IN  IF Extension(path) = Some(<<"md">>)
           THEN /\ Len(work_queue) < WorkQueueCapacity
                /\ work_queue' = Append(work_queue, path)
           ELSE UNCHANGED work_queue
    /\ rx' = [rx EXCEPT !["fti"].next = rx["fti"].next + 1]
    /\ UNCHANGED <<disk, cacheVars, req, requests, file_events, batches,
                   watcher, bc_log, changed, auxVars>>

\* full_text_index.rs scan, line 229: the scanner takes the next path.
ScannerRecv ==
    /\ work_queue # <<>>
    /\ work_queue' = Tail(work_queue)
    /\ UNCHANGED <<disk, cacheVars, req, requests, file_events, batches,
                   watcher, bc_log, rx, changed, auxVars>>

\* image_size_cache.rs listen_for_changes (83-95): a .toml path reloads the
\* image sizes from their file, which is no part of this state.
IscListen ==
    /\ CanRecv("isc")
    /\ ~Lagged("isc")
    /\ rx' = [rx EXCEPT !["isc"].next = rx["isc"].next + 1]
    /\ UNCHANGED <<disk, cacheVars, req, requests, file_events, batches,
                   watcher, bc_log, work_queue, changed, auxVars>>

\* ------------------------------------- DocumentScanner (full_text_index.rs)
\* A document of the inverted index: its link field and the version of the
\* file its body was read from.
Doc(p, v) == [link |-> p, body |-> v]

delete_termAs(ix, p) == ix

\* IndexWriter::delete_term on the link field.
delete_term(ix, p) == {d \in ix : d.link # p}

\* IndexWriter::add_document.
add_document(ix, d) == ix \cup {d}

HasDoc(ix, p) == \E d \in ix : d.link = p

\* full_text_index.rs get_modtime (187-194): None when the file is gone.
ScanModtime(p) == IF p \in on_disk THEN Some(disk[p]) ELSE None

\* FileTimes::check_up_to_date (306-322): the answer and the map it leaves.
check_up_to_date(files, p, current_modtime) ==
    IF current_modtime = None
    THEN [up_to_date |-> FALSE, files |-> [files EXCEPT ![p] = None]]
    ELSE IF files[p] = current_modtime
         THEN [up_to_date |-> TRUE, files |-> files]
         ELSE [up_to_date |-> FALSE,
               files |-> [files EXCEPT ![p] = current_modtime]]

\* The orders in which a directory walk can list the files of S.
Orders(S) ==
    {s \in [1..Cardinality(S) -> S] : \A i, j \in 1..Cardinality(S) :
                                          s[i] = s[j] => i = j}

\* The server starts, for the first time or again after a stop or a crash at
\* any point: FileTimes::try_load reads ft.toml, the writer holds what was
\* committed, scan_directory (89-101) creates the queue and spawns the
\* scanner, and the walk of the document root lists the files to send.
Restart ==
    /\ file_times' = ft_toml
    /\ index_writer' = index
    /\ work_queue' = <<>>
    /\ scanner' = [ScannerOff EXCEPT !.pc = "prune"]
    /\ feed' \in Orders(on_disk)
    /\ seen_deleted' = {}
    /\ UNCHANGED <<disk, on_disk, ft_toml, index, serverVars, parseVars,
                   crumbVars, extVars>>

\* scan_directory, lines 103-106: the next Markdown file is sent.
FeedSend ==
    /\ feed # <<>>
    /\ Len(work_queue) < WorkQueueCapacity
    /\ work_queue' = Append(work_queue, Head(feed))
    /\ feed' = Tail(feed)
    /\ UNCHANGED <<disk, on_disk, file_times, ft_toml, index_writer, index,
                   scanner, seen_deleted, serverVars, parseVars, crumbVars, extVars>>

\* listen_for_changes (274-287), subscribed once every file has been sent
\* (108-109): a change event names the .md path p.  directory_watcher
\* publishes the path of every Create, Modify and Remove event, so one write
\* can name its path more than once.
FtiForward(p) ==
    /\ scanner.pc # "off"
    /\ feed = <<>>
    /\ Len(work_queue) < MaxQueue
    /\ work_queue' = Append(work_queue, p)
    /\ UNCHANGED <<disk, on_disk, file_times, ft_toml, index_writer, index,
                   scanner, feed, seen_deleted, serverVars, parseVars,
                   crumbVars, extVars>>

\* A Markdown file is written: created if it was absent, with a new modtime.
WriteFile(p) ==
    /\ disk[p] < MaxVersion
    /\ disk' = [disk EXCEPT ![p] = disk[p] + 1]
    /\ on_disk' = on_disk \cup {p}
    /\ seen_deleted' = seen_deleted \ {p}
    /\ UNCHANGED <<work_queue, file_times, ft_toml, index_writer, index,
                   scanner, feed, serverVars, parseVars, crumbVars, extVars>>

\* A Markdown file is deleted.
RemoveFile(p) ==
    /\ p \in on_disk
    /\ on_disk' = on_disk \ {p}
    /\ UNCHANGED <<disk, work_queue, file_times, ft_toml, index_writer, index,
                   scanner, feed, seen_deleted, serverVars, parseVars,
                   crumbVars, extVars>>

\* prune_deleted_documents (197-223): the paths of the map whose file is gone
\* leave the map and the index, and the index alone is committed.
ScanPrune ==
    /\ scanner.pc = "prune"
    /\ LET deleted == {p \in MdPaths : file_times[p] # None /\ p \notin on_disk}
           pruned == {d \in index_writer : d.link \notin deleted}
       IN  /\ file_times' = [p \in MdPaths |->
                                IF p \in deleted THEN None ELSE file_times[p]]
           /\ IF deleted # {}
              THEN index_writer' = pruned /\ index' = pruned
              ELSE UNCHANGED <<index_writer, index>>
           /\ seen_deleted' = seen_deleted \cup deleted
    /\ scanner' = [scanner EXCEPT !.pc = "recv"]
    /\ UNCHANGED <<disk, on_disk, work_queue, ft_toml, feed, serverVars,
                   parseVars, crumbVars, extVars>>

\* scan, line 229: the scanner takes the next path.
ScanRecv ==
    /\ scanner.pc = "recv"
    /\ work_queue # <<>>
    /\ work_queue' = Tail(work_queue)
    /\ scanner' = [scanner EXCEPT !.pc = "get_modtime", !.path = Head(work_queue)]
    /\ UNCHANGED <<disk, on_disk, file_times, ft_toml, index_writer, index,
                   feed, seen_deleted, serverVars, parseVars, crumbVars, extVars>>

\* scan, lines 230-244: the modtime is read; an up-to-date path ends the
\* iteration with `continue`, any other path has its document deleted.
ScanCheck ==
    /\ scanner.pc = "get_modtime"
    /\ LET p == scanner.path
           modtime == ScanModtime(p)
           r == check_up_to_date(file_times, p, modtime)
       IN  /\ file_times' = r.files
           /\ IF r.up_to_date
              THEN /\ scanner' = [scanner EXCEPT !.pc = "recv"]
                   /\ UNCHANGED <<index_writer, seen_deleted>>
              ELSE /\ scanner' = [scanner EXCEPT !.pc = "read",
                                                 !.modtime = modtime]
                   /\ index_writer' = delete_term(index_writer, p)
                   /\ seen_deleted' = IF modtime = None
                                      THEN seen_deleted \cup {p}
                                      ELSE seen_deleted
    /\ UNCHANGED <<disk, on_disk, work_queue, ft_toml, index, feed,
                   serverVars, parseVars, crumbVars, extVars>>

CommitsNowAs(queue, docs) == queue = <<>>

\* scan, line 263: the condition under which the iteration commits.
CommitsNow(queue, docs) == queue = <<>> \/ docs > CommitEvery

\* scan, lines 246-263: the file is read and, if that succeeded, added; the
\* path counts as a document either way; then the commit condition is
\* evaluated.
ScanRead ==
    /\ scanner.pc = "read"
    /\ LET p == scanner.path
           docs == scanner.docs_since_last_commit + 1
       IN  /\ index_writer' = IF p \in on_disk
                              THEN add_document(index_writer, Doc(p, disk[p]))
                              ELSE index_writer
           /\ scanner' = [scanner EXCEPT
                             !.docs_since_last_commit = docs,
                             !.pc = IF CommitsNow(work_queue, docs)
                                    THEN "save_open" ELSE "recv"]
    /\ UNCHANGED <<disk, on_disk, work_queue, file_times, ft_toml, index,
                   feed, seen_deleted, serverVars, parseVars, crumbVars, extVars>>

\* FileTimes::save, lines 325-330: ft.toml is opened and truncated.
ScanSaveOpen ==
    /\ scanner.pc = "save_open"
    /\ ft_toml' = NoTimes
    /\ scanner' = [scanner EXCEPT !.pc = "save_write"]
    /\ UNCHANGED <<disk, on_disk, work_queue, file_times, index_writer, index,
                   feed, seen_deleted, serverVars, parseVars, crumbVars, extVars>>

\* FileTimes::save, lines 331-346: the map is written.
ScanSaveWrite ==
    /\ scanner.pc = "save_write"
    /\ ft_toml' = file_times
    /\ scanner' = [scanner EXCEPT !.pc = "commit"]
    /\ UNCHANGED <<disk, on_disk, work_queue, file_times, index_writer, index,
                   feed, seen_deleted, serverVars, parseVars, crumbVars, extVars>>

\* scan, lines 265-267: the index is committed.
ScanCommit ==
    /\ scanner.pc = "commit"
    /\ index' = index_writer
    /\ scanner' = [scanner EXCEPT !.pc = "recv", !.docs_since_last_commit = 0]
    /\ UNCHANGED <<disk, on_disk, work_queue, file_times, ft_toml,
                   index_writer, feed, seen_deleted, serverVars, parseVars,
                   crumbVars, extVars>>

\* ------------------------------------------ changes around the startup scan
\* A Markdown file is modified and the debouncer hands the Modify event of
\* its path to the watcher task.
ModifyAndNotify(p) ==
    /\ disk[p] < MaxVersion
    /\ disk' = [disk EXCEPT ![p] = disk[p] + 1]
    /\ file_events' = Append(file_events, Ok(<<Ev("Modify", p, <<p>>)>>))
    /\ UNCHANGED <<cacheVars, req, requests, batches, watcher, bc_log, rx,
                   work_queue, changed, auxVars>>

\* scan_directory, lines 108-109: once every file has been sent the indexer
\* subscribes to the FileManager and spawns listen_for_changes.
ScanSubscribe ==
    /\ scanner.pc # "off"
    /\ feed = <<>>
    /\ Subscribe("fti")

\* ------------------------------------------ strings (document_scraper.rs)
\* A string is the sequence of its characters.
UpperCase == <<"A", "B", "C", "D", "E", "F", "G", "H", "I", "J", "K", "L", "M",
               "N", "O", "P", "Q", "R", "S", "T", "U", "V", "W", "X", "Y", "Z">>
LowerCase == <<"a", "b", "c", "d", "e", "f", "g", "h", "i", "j", "k", "l", "m",
               "n", "o", "p", "q", "r", "s", "t", "u", "v", "w", "x", "y", "z">>
Digits == <<"0", "1", "2", "3", "4", "5", "6", "7", "8", "9">>

\* str::to_ascii_lowercase.
to_ascii_lowercase(s) ==
    [i \in 1..Len(s) |->
        IF \E k \in 1..Len(UpperCase) : UpperCase[k] = s[i]
        THEN LowerCase[CHOOSE k \in 1..Len(UpperCase) : UpperCase[k] = s[i]]
        ELSE s[i]]

\* A run of hyphens becomes one hyphen and the trailing run goes.
RECURSIVE Hyphenate(_)
Hyphenate(s) ==
    IF s = <<>> THEN <<>>
    ELSE LET r == Hyphenate(Tail(s))
         IN  IF Head(s) = "-" /\ (r = <<>> \/ Head(r) = "-")
             THEN r ELSE <<Head(s)>> \o r

\* slugify!: lower case, every run of other characters one hyphen, none at
\* either end.
slugify(s) ==
    LET low == to_ascii_lowercase(s)
        keep(c) == \/ \E k \in 1..Len(LowerCase) : LowerCase[k] = c
                   \/ \E k \in 1..Len(Digits) : Digits[k] = c
        h == Hyphenate([i \in 1..Len(s) |-> IF keep(low[i]) THEN low[i] ELSE "-"])
    IN  IF h # <<>> /\ Head(h) = "-" THEN Tail(h) ELSE h

RECURSIVE Concat(_)
Concat(ss) == IF ss = <<>> THEN <<>> ELSE Head(ss) \o Concat(Tail(ss))

\* ------------------------------------------------- the Markdown documents
\* A document is a sequence of blocks.  A heading holds inline items: plain
\* text, a code span, a link around text.  A front-matter block holds the
\* lines of its YAML: `key: value` with a string, an integer or a sequence
\* as value, a bare scalar, a `- item`, or a line no YAML parser accepts.
Item(kind, key, text) == [kind |-> kind, key |-> key, text |-> text]

Block(kind, level, items, text, id) ==
    [kind |-> kind, level |-> level, items |-> items, text |-> text, id |-> id]

BodyBlocks ==
    { Block("heading", 1, <<Item("text", "", <<"H", "i">>)>>, <<>>, None),
      Block("heading", 2, <<Item("text", "", <<"A", " ">>),
                            Item("code", "", <<"b">>)>>, <<>>, None),
      Block("heading", 3, <<Item("text", "", <<"/", " ">>),
                            Item("link", "", <<"G", "o">>)>>, <<>>, None),
      Block("para", 0, <<>>, <<"x">>, None),
      Block("fence", 0, <<>>, <<"r", "u", "s", "t">>, None),
      Block("fence", 0, <<>>, <<"R", "u", "s", "t">>, None),
      Block("fence", 0, <<>>, <<"z", "i", "g">>, None),
      Block("indented", 0, <<>>, <<>>, None),
      Block("raw", 2, <<>>, <<"X">>, Some(<<"x">>)) }

IndexHtml == <<"i", "n", "d", "e", "x", ".", "h", "t", "m", "l">>

MetaBlocks ==
    { Block("meta", 0, <<Item("str", "title", <<"T">>)>>, <<>>, None),
      Block("meta", 0, <<Item("str", "template", IndexHtml)>>, <<>>, None),
      Block("meta", 0, <<Item("str", "template", IndexHtml),
                         Item("array", "og", <<>>)>>, <<>>, None),
      Block("meta", 0, <<Item("int", "count", <<"3">>)>>, <<>>, None),
      Block("meta", 0, <<Item("str", "", <<"T">>)>>, <<>>, None),
      Block("meta", 0, <<Item("item", "", <<"T">>)>>, <<>>, None),
      Block("meta", 0, <<Item("bad", "", <<>>)>>, <<>>, None) }

\* Front-matter is recognised at the start of the document only.
Docs ==
    UNION { { d \in [1..n -> BodyBlocks \cup MetaBlocks] :
                \A i \in 2..n : d[i].kind # "meta" } : n \in 0..MaxBlocks }

\* ------------------------------------------- pulldown_cmark (the parser)
MdEvent(ev, tag, level, text, id) ==
    [ev |-> ev, tag |-> tag, level |-> level, text |-> text, id |-> id]

ItemEvents(it) ==
    CASE it.kind = "text" -> <<MdEvent("Text", "", 0, it.text, None)>>
      [] it.kind = "code" -> <<MdEvent("Code", "", 0, it.text, None)>>
      [] it.kind = "link" -> <<MdEvent("Start", "Link", 0, <<>>, None),
                               MdEvent("Text", "", 0, it.text, None),
                               MdEvent("End", "Link", 0, <<>>, None)>>

\* The events of one block.  A CodeBlock carries its kind in `tag`, a raw
\* html heading carries what heading_re and id_re capture from it.
BlockEvents(b) ==
    CASE b.kind = "heading" ->
            <<MdEvent("Start", "Heading", b.level, <<>>, None)>>
            \o Concat([i \in 1..Len(b.items) |-> ItemEvents(b.items[i])])
            \o <<MdEvent("End", "Heading", b.level, <<>>, None)>>
      [] b.kind = "para" ->
            <<MdEvent("Start", "Paragraph", 0, <<>>, None),
              MdEvent("Text", "", 0, b.text, None),
              MdEvent("End", "Paragraph", 0, <<>>, None)>>
      [] b.kind = "fence" ->
            <<MdEvent("Start", "Fenced", 0, b.text, None),
              MdEvent("Text", "", 0, <<"x">>, None),
              MdEvent("End", "CodeBlock", 0, <<>>, None)>>
      [] b.kind = "indented" ->
            <<MdEvent("Start", "Indented", 0, <<>>, None),
              MdEvent("Text", "", 0, <<"x">>, None),
              MdEvent("End", "CodeBlock", 0, <<>>, None)>>
      [] b.kind = "meta" ->
            <<MdEvent("Start", "MetadataBlock", 0, <<>>, None),
              MdEvent("Text", "", 0, b.items, None),
              MdEvent("End", "MetadataBlock", 0, <<>>, None)>>
      [] b.kind = "raw" ->
            <<MdEvent("Start", "HtmlBlock", 0, <<>>, None),
              MdEvent("Html", "", b.level, b.text, b.id),
              MdEvent("End", "HtmlBlock", 0, <<>>, None)>>

ParserEvents(d) == Concat([i \in 1..Len(d) |-> BlockEvents(d[i])])

\* pulldown_cmark::html::push_html.
ItemHtml(it) ==
    CASE it.kind = "text" -> it.text
      [] it.kind = "code" -> <<"<", "c", "o", "d", "e", ">">> \o it.text
                             \o <<"<", "/", "c", "o", "d", "e", ">">>
      [] it.kind = "link" -> <<"<", "a", ">">> \o it.text \o <<"<", "/", "a", ">">>

BlockHtml(b) ==
    CASE b.kind = "heading" ->
            <<"<", "h", Digits[b.level + 1], ">">>
            \o Concat([i \in 1..Len(b.items) |-> ItemHtml(b.items[i])])
            \o <<"<", "/", "h", Digits[b.level + 1], ">">>
      [] b.kind = "para" -> <<"<", "p", ">">> \o b.text \o <<"<", "/", "p", ">">>
      [] b.kind \in {"fence", "indented"} ->
            <<"<", "p", "r", "e", ">", "x", "<", "/", "p", "r", "e", ">">>
      [] b.kind = "meta" -> <<>>
      [] b.kind = "raw" ->
            <<"<", "h", Digits[b.level + 1], " ", "i", "d", "=", "\"">>
            \o b.id[1] \o <<"\"", ">">> \o b.text
            \o <<"<", "/", "h", Digits[b.level + 1], ">">>

push_html(d) == Concat([i \in 1..Len(d) |-> BlockHtml(d[i])])

\* YamlLoader::load_from_str on the lines of a front-matter block.
YamlLoad(lines) ==
    CASE \E i \in 1..Len(lines) : lines[i].kind = "bad" ->
            [ok |-> FALSE, docs |-> <<>>]
      [] lines = <<>> -> [ok |-> TRUE, docs |-> <<>>]
      [] \A i \in 1..Len(lines) : lines[i].key # "" ->
            [ok |-> TRUE, docs |-> <<[kind |-> "Hash", entries |-> lines]>>]
      [] \A i \in 1..Len(lines) : lines[i].kind = "item" ->
            [ok |-> TRUE, docs |-> <<[kind |-> "Array", entries |-> <<>>]>>]
      [] Len(lines) = 1 /\ lines[1].kind = "str" ->
            [ok |-> TRUE, docs |-> <<[kind |-> "String", entries |-> <<>>]>>]
      [] OTHER -> [ok |-> FALSE, docs |-> <<>>]

\* ---------------------------------- DocumentScraper (document_scraper.rs)
CODE_LANGUAGES ==
    { <<"a", "p", "p", "l", "e", "s", "c", "r", "i", "p", "t">>,
      <<"b", "a", "s", "h">>,
      <<"c">>,
      <<"c", "p", "p">>,
      <<"c", "s", "h", "a", "r", "p">>,
      <<"e", "r", "l", "a", "n", "g">>,
      <<"f", "o", "r", "t", "r", "a", "n">>,
      <<"g", "o">>,
      <<"h", "a", "s", "k", "e", "l", "l">>,
      <<"h", "t", "m", "l">>,
      <<"i", "n", "i">>,
      <<"j", "a", "v", "a">>,
      <<"j", "s">>,
      <<"m", "a", "k", "e">>,
      <<"m", "a", "r", "k", "d", "o", "w", "n">>,
      <<"o", "b", "j", "e", "c", "t", "i", "v", "e", "c">>,
      <<"p", "e", "r", "l">>,
      <<"p", "h", "p">>,
      <<"p", "y", "t", "h", "o", "n">>,
      <<"r">>,
      <<"r", "u", "s", "t">>,
      <<"s", "q", "l">>,
      <<"t", "e", "x", "t">>,
      <<"x", "m", "l">>,
      <<"y", "a", "m", "l">>  }

InternalLink(anchor, name, level) ==
    [anchor |-> anchor, name |-> name, level |-> level]

\* HashMap::insert on the metadata, a set of <<key, value>>.
MetaInsert(m, k, v) == {e \in m : e[1] # k} \cup {<<k, v>>}

\* get_template (81-83).
get_template(s) ==
    IF \E e \in s.metadata : e[1] = "template"
    THEN (CHOOSE e \in s.metadata : e[1] = "template")[2]
    ELSE <<"m", "a", "r", "k", "d", "o", "w", "n", ".", "h", "t", "m", "l">>

PushedLanguagesAs(langs, lang) == Append(langs, lang)

\* check_event, lines 102-107: code_languages after a fence with token lang.
PushedLanguages(langs, lang) ==
    IF to_ascii_lowercase(lang) \in CODE_LANGUAGES
    THEN Append(langs, to_ascii_lowercase(lang))
    ELSE langs

\* check_event, lines 183-206: the front-matter makes the thread panic, at a
\* document that is neither a sequence nor a mapping (todo!()) or at a value
\* of a mapping that is not a string (as_str().unwrap()).
MetadataPanics(text) ==
    LET y == YamlLoad(text)
    IN  /\ y.ok
        /\ \E i \in 1..Len(y.docs) :
              \/ y.docs[i].kind \notin {"Array", "Hash"}
              \/ \E j \in 1..Len(y.docs[i].entries) :
                    y.docs[i].entries[j].kind # "str"

\* check_event, lines 195-200: the entries of every mapping are inserted.
RECURSIVE InsertEntries(_, _)
InsertEntries(m, entries) ==
    IF entries = <<>> THEN m
    ELSE InsertEntries(MetaInsert(m, Head(entries).key, Head(entries).text),
                       Tail(entries))

LoadedMetadata(m, text) ==
    LET y == YamlLoad(text)
    IN  IF y.ok
        THEN InsertEntries(m, Concat([i \in 1..Len(y.docs) |-> y.docs[i].entries]))
        ELSE m

\* check_event (85-216) on an event that does not panic.
check_event(s, e) ==
    CASE e.ev = "Start" /\ e.tag = "MetadataBlock" ->
            [s EXCEPT !.text_collector = Some(<<>>)]
      [] e.ev = "Start" /\ e.tag = "Heading" ->
            [s EXCEPT !.starts_with_heading = IF s.has_readable_text THEN @ ELSE TRUE,
                      !.has_readable_text = TRUE,
                      !.text_collector = Some(<<>>)]
      [] e.ev = "Start" /\ e.tag = "Fenced" ->
            [s EXCEPT !.has_code_blocks = TRUE,
                      !.code_languages = PushedLanguages(@, e.text)]
      [] e.ev = "Start" /\ e.tag = "Indented" ->
            [s EXCEPT !.has_code_blocks = TRUE]
      [] e.ev = "Start" /\ e.tag \notin {"MetadataBlock", "Heading", "Fenced",
                                         "Indented"} ->
            [s EXCEPT !.has_readable_text = TRUE]
      [] e.ev = "Html" ->
            IF e.id = None THEN s
            ELSE [s EXCEPT !.internal_links =
                               Append(@, InternalLink(e.id[1], e.text, e.level))]
      [] e.ev = "Text" ->
            IF s.text_collector = None THEN s
            ELSE [s EXCEPT !.text_collector = Some(@[1] \o e.text)]
      [] e.ev = "End" /\ e.tag = "Heading" ->
            IF s.text_collector = None THEN s
            ELSE LET name == s.text_collector[1]
                 IN  [s EXCEPT !.text_collector = None,
                               !.title = IF @ = None THEN Some(name) ELSE @,
                               !.internal_links =
                                   Append(@, InternalLink(slugify(name), name,
                                                          e.level))]
      [] e.ev = "End" /\ e.tag = "MetadataBlock" ->
            IF s.text_collector = None THEN s
            ELSE [s EXCEPT !.text_collector = None,
                           !.metadata = LoadedMetadata(@, s.text_collector[1])]
      [] OTHER -> s

\* normalize_headings (223-242), from link i on.
RECURSIVE NormalizeFrom(_, _, _, _)
NormalizeFrom(links, i, last_used_level, last_seen_level) ==
    IF i > Len(links) THEN links
    ELSE IF links[i].level > last_seen_level
         THEN NormalizeFrom([links EXCEPT ![i].level = last_used_level + 1],
                            i + 1, last_used_level + 1, links[i].level)
         ELSE IF links[i].level < last_seen_level
              THEN NormalizeFrom(links, i + 1, links[i].level, links[i].level)
              ELSE NormalizeFrom([links EXCEPT ![i].level = last_used_level],
                                 i + 1, last_used_level, last_seen_level)

normalize_headings(links) == NormalizeFrom(links, 1, 0, 0)

Top == InternalLink(<<"t", "o", "p">>, <<"T", "o", "p">>, 1)
Contents == InternalLink(<<"c", "o", "n", "t", "e", "n", "t", "s">>,
                         <<"C", "o", "n", "t", "e", "n", "t", "s">>, 2)

\* parse_markdown, line 252: the parser hands the next event to check_event.
CheckEvent ==
    /\ stage = "scrape"
    /\ events # <<>>
    /\ LET e == Head(events)
       IN  IF /\ e.ev = "End" /\ e.tag = "MetadataBlock"
              /\ scraper.text_collector # None
              /\ MetadataPanics(scraper.text_collector[1])
           THEN /\ stage' = "panicked"
                /\ UNCHANGED <<scraper, events>>
           ELSE /\ scraper' = check_event(scraper, e)
                /\ events' = Tail(events)
                /\ UNCHANGED stage
    /\ UNCHANGED <<md, html_content, disk, work_queue, serverVars, scanVars,
                   crumbVars, extVars>>

\* parse_markdown, lines 256-264: the html is complete, the Top and Contents
\* links are added and the levels are normalized.
ParseFinish ==
    /\ stage = "scrape"
    /\ events = <<>>
    /\ LET top == IF scraper.starts_with_heading THEN <<>> ELSE <<Top>>
           contents == IF get_template(scraper) = IndexHtml
                       THEN <<Contents>> ELSE <<>>
       IN  scraper' = [scraper EXCEPT !.internal_links =
                          normalize_headings(top \o @ \o contents)]
    /\ html_content' = push_html(md)
    /\ stage' = "parsed"
    /\ UNCHANGED <<md, events, disk, work_queue, serverVars, scanVars,
                   crumbVars, extVars>>

\* -------------------------------- add_anchors_to_headings (html_generator)
\* The next character of the iterator over the four-byte slice, once k of
\* its characters have been taken.
SliceNext(slice, k) == IF k < Len(slice) THEN Some(slice[k + 1]) ELSE None

\* The first '<' of html at or after character i, Len(html) + 1 if none.
NextOpen(html, i) ==
    IF \E j \in i..Len(html) : html[j] = "<"
    THEN CHOOSE j \in i..Len(html) :
             html[j] = "<" /\ \A k \in i..(j - 1) : html[k] # "<"
    ELSE Len(html) + 1

\* add_anchors_to_headings, lines 330-357, from character i on; link_index
\* counts from 0 as in the code.  Every character before the next '<' is
\* pushed as it is (line 356); at the '<' the four-byte slice decides.
RECURSIVE AnchorsFrom(_, _, _, _, _)
AnchorsFrom(html, links, i, link_index, new_html) ==
    LET at == NextOpen(html, i)
        copied == new_html \o SubSeq(html, i, at - 1)
        open_slice == IF at + 3 <= Len(html) THEN SubSeq(html, at, at + 3)
                      ELSE <<>>
        is_h == /\ link_index < Len(links)
                /\ open_slice # <<>>
                /\ SliceNext(open_slice, 1) = Some("h")
    IN  IF at > Len(html) THEN copied
        ELSE IF is_h /\ SliceNext(open_slice, 3) = Some(">")
             THEN AnchorsFrom(html, links, at + 4, link_index + 1,
                      copied
                      \o <<"<", "h", open_slice[3], " ", "i", "d", "=", "\"">>
                      \o links[link_index + 1].anchor \o <<"\"", ">">>)
             ELSE AnchorsFrom(html, links, at + 1,
                      IF is_h /\ SliceNext(open_slice, 4) = Some(" ")
                      THEN link_index + 1 ELSE link_index,
                      Append(copied, html[at]))

\* add_anchors_to_headings (321-359).
add_anchors_to_headings(original_html, links, inserted_top) ==
    LET start_index == IF inserted_top THEN 1 ELSE 0
    IN  IF Len(links) = start_index THEN original_html
        ELSE AnchorsFrom(original_html, links, 1, start_index, <<>>)

\* gen_markdown, line 136.
AddAnchors ==
    /\ stage = "parsed"
    /\ html_content' = add_anchors_to_headings(html_content,
                           scraper.internal_links, ~scraper.starts_with_heading)
    /\ stage' = "rendered"
    /\ UNCHANGED <<md, events, scraper, disk, work_queue, serverVars, scanVars,
                   crumbVars, extVars>>

\* parse_markdown, line 263, on the links of any document.
NormalizeHeadings ==
    /\ stage = "normalize"
    /\ scraper' = [scraper EXCEPT !.internal_links = normalize_headings(@)]
    /\ stage' = "normalized"
    /\ UNCHANGED <<md, events, html_content, disk, work_queue, serverVars,
                   scanVars, crumbVars, extVars>>

\* ------------------------------------ generate_anchor_html (html_generator)
\* One push_str of generate_anchor_html: list_prefix, list_suffix,
\* list_item_end, or the item of one link (item_prefix, anchor, item_middle,
\* name, item_suffix).
Piece(kind, anchor, name) == [kind |-> kind, anchor |-> anchor, name |-> name]

list_prefix == Piece("list_prefix", <<>>, <<>>)
list_suffix == Piece("list_suffix", <<>>, <<>>)
list_item_end == Piece("list_item_end", <<>>, <<>>)

\* Lines 264-266 and 277-279, run n times.
Outdents(n) ==
    Concat([i \in 1..n |-> <<list_item_end, list_suffix>>])

\* generate_anchor_html, line 258.
OpensList(last_level, level) == last_level < level

\* generate_anchor_html, lines 257-280, from link i on.
RECURSIVE AnchorHtmlFrom(_, _, _, _)
AnchorHtmlFrom(doclinks, i, last_level, html) ==
    IF i > Len(doclinks) THEN html \o Outdents(last_level)
    ELSE LET link == doclinks[i]
             item == Piece("item", link.anchor, link.name)
         IN  IF OpensList(last_level, link.level)
             THEN AnchorHtmlFrom(doclinks, i + 1, link.level,
                                 html \o <<list_prefix, item>>)
             ELSE AnchorHtmlFrom(doclinks, i + 1, link.level,
                                 html \o Outdents(last_level - link.level)
                                      \o <<list_item_end, item>>)

\* generate_anchor_html (240-288); its normalize_headings (295-319) is the
\* function of the same name and text in document_scraper.rs.
generate_anchor_html(doclinks) ==
    IF doclinks = <<>> THEN <<>>
    ELSE AnchorHtmlFrom(normalize_headings(doclinks), 1, 0, <<>>)

\* gen_markdown, line 147, on the links parse_markdown has normalized.
GenerateAnchorHtml ==
    /\ stage = "normalized"
    /\ html_content' = generate_anchor_html(scraper.internal_links)
    /\ stage' = "listed"
    /\ UNCHANGED <<md, events, scraper, disk, work_queue, serverVars, scanVars,
                   crumbVars, extVars>>

\* ------------------------------------- get_breadcrumbs (html_generator.rs)
HOME_DIR == <<"/", "h", "o", "m", "e">>

\* The path segments the requests are made of.
SegA == <<"a">>
SegB == <<"b">>
SegC == <<"c", ".", "m", "d">>
SegIndex == <<"i", "n", "d", "e", "x", ".", "m", "d">>
SegSpace == <<"m", "y", " ", "d">>
Segments == {SegA, SegB, SegC, SegIndex, SegSpace}

\* urlencoding::encode on the characters the segments are made of.
urlencode(seg) ==
    Concat([i \in 1..Len(seg) |->
               IF seg[i] = " " THEN <<"%", "2", "0">> ELSE <<seg[i]>>])

\* One span of the trail: its class, the href of its link if it has one, and
\* its text.
Crumb(class, href, name) == [class |-> class, href |-> href, name |-> name]

KeepsPartAs(el, skip) == TRUE

\* get_breadcrumbs, lines 451-453: the filter on the path's components.
KeepsPart(el, skip) == el # skip

\* get_breadcrumbs, lines 462-478, from part i on.
RECURSIVE CrumbsFrom(_, _, _, _)
CrumbsFrom(parts, i, url, trail) ==
    IF i > Len(parts) THEN trail
    ELSE IF i < Len(parts)
         THEN LET next_url == url \o urlencode(parts[i]) \o <<"/">>
              IN  CrumbsFrom(parts, i + 1, next_url,
                             Append(trail, Crumb("crumb", Some(next_url), parts[i])))
         ELSE CrumbsFrom(parts, i + 1, url,
                         Append(trail, Crumb("crumb", None, parts[i])))

\* get_breadcrumb_name_and_url_len, lines 421-432, from part i on.
RECURSIVE NameAndUrlLenFrom(_, _, _, _, _)
NameAndUrlLenFrom(parts, i, url_len, prev_url_len, name_len) ==
    IF i > Len(parts)
    THEN [name_len |-> name_len, url_len |-> url_len, prev_url_len |-> prev_url_len]
    ELSE IF i < Len(parts)
         THEN LET p_len == Len(urlencode(parts[i]))
                  new_url_len == prev_url_len + p_len + 1
              IN  NameAndUrlLenFrom(parts, i + 1, url_len + new_url_len,
                                    new_url_len, name_len + Len(parts[i]))
         ELSE NameAndUrlLenFrom(parts, i + 1, url_len, prev_url_len,
                                name_len + Len(parts[Len(parts)]))

\* get_breadcrumb_name_and_url_len (416-434).
get_breadcrumb_name_and_url_len(parts) ==
    NameAndUrlLenFrom(parts, 1, Len(HOME_DIR), Len(HOME_DIR), 0)

\* get_breadcrumbs (450-486).
get_breadcrumbs(path, skip) ==
    LET Kept(el) == KeepsPart(el, skip)
    IN  CrumbsFrom(SelectSeq(path, Kept), 1, HOME_DIR,
                   <<Crumb("home", Some(HOME_DIR), <<"H", "o", "m", "e">>)>>)

\* gen_markdown, line 150.
GetBreadcrumbs ==
    /\ breadcrumbs = None
    /\ crumb_path # <<>>
    /\ breadcrumbs' = Some(get_breadcrumbs(crumb_path, index_file))
    /\ UNCHANGED <<crumb_path, index_file, disk, work_queue, serverVars,
                   scanVars, parseVars, extVars>>

\* ------------------------------------------ FileManager (file_manager.rs)
\* The characters names are made of, in the order of their codes.
Ascii == <<" ", ".", "/">> \o Digits \o UpperCase \o LowerCase

CharCode(c) == CHOOSE i \in 1..Len(Ascii) : Ascii[i] = c

\* str::cmp: the strings are compared byte by byte.
RECURSIVE StrCmp(_, _)
StrCmp(a, b) ==
    IF a = <<>> THEN (IF b = <<>> THEN "Equal" ELSE "Less")
    ELSE IF b = <<>> THEN "Greater"
    ELSE IF CharCode(Head(a)) < CharCode(Head(b)) THEN "Less"
    ELSE IF CharCode(Head(a)) > CharCode(Head(b)) THEN "Greater"
    ELSE StrCmp(Tail(a), Tail(b))

eq_ignore_ascii_case(a, b) == to_ascii_lowercase(a) = to_ascii_lowercase(b)

\* The Markdown files and the folders the directory of the document can
\* hold.
PeerA == <<"a", ".", "m", "d">>
PeerB == <<"B", ".", "m", "d">>
PeerNames == {PeerA, PeerB, SegC, SegIndex}
FolderNames == {<<"i", "m", "g">>, <<"Z">>}

\* A folder of the directory; markdown: some file under it is Markdown.
Folder(name, markdown) == [name |-> name, markdown |-> markdown]

Folders == {Folder(n, m) : n \in FolderNames, m \in BOOLEAN}

\* Doclink { anchor, name, level: 1 } of a file or folder name (78-82, 89-93).
PeerLink(name) == InternalLink(urlencode(name), name, 1)

\* find_files_in_directory (64-100): the files FileManager::new listed for
\* the directory, but for skip, and the folders it listed.
find_files_in_directory(fm, skip) ==
    LET Kept(file_name) == file_name # skip
        files == SelectSeq(fm.files, Kept)
    IN  [files |-> [i \in 1..Len(files) |-> PeerLink(files[i])],
         folders |-> [i \in 1..Len(fm.folders) |-> PeerLink(fm.folders[i])]]

\* The comparators of find_peers: lines 149-159 for the files, index_name
\* being the index file's name, and lines 160-162 for the folders, with none.
PeerCmp(a, b, index_name) ==
    IF index_name # None /\ eq_ignore_ascii_case(a.name, index_name[1]) THEN "Less"
    ELSE IF index_name # None /\ eq_ignore_ascii_case(b.name, index_name[1]) THEN "Greater"
    ELSE StrCmp(a.name, b.name)

\* sort_unstable_by: x is put before the first element it is less than.
InsertSorted(sorted, x, index_name) ==
    LET before == {i \in 1..Len(sorted) : PeerCmp(x, sorted[i], index_name) = "Less"}
        at == IF before = {} THEN Len(sorted) + 1
              ELSE CHOOSE i \in before : \A j \in before : i <= j
    IN  SubSeq(sorted, 1, at - 1) \o <<x>> \o SubSeq(sorted, at, Len(sorted))

RECURSIVE SortedBy(_, _)
SortedBy(links, index_name) ==
    IF links = <<>> THEN <<>>
    ELSE InsertSorted(SortedBy(Tail(links), index_name), Head(links), index_name)

\* find_peers (134-164).  canonicalize fails for a path that does not exist.
find_peers(fm, relative_path, index_name, present) ==
    IF relative_path \notin present
    THEN [files |-> <<>>, folders |-> <<>>]
    ELSE LET found == find_files_in_directory(fm, relative_path)
         IN  [files |-> SortedBy(found.files, Some(index_name)),
              folders |-> SortedBy(found.folders, None)]

\* A Markdown file is created in the directory.
CreateSibling(n) ==
    /\ peers = None
    /\ n \notin siblings
    /\ siblings' = siblings \cup {n}
    /\ UNCHANGED <<subfolders, file_manager, peers, disk, work_queue, serverVars, scanVars,
                   parseVars, crumbVars, httpVars,
                   rangeVars, lockVars>>

\* A Markdown file of the directory is removed.
RemoveSibling(n) ==
    /\ peers = None
    /\ n \in siblings
    /\ siblings' = siblings \ {n}
    /\ UNCHANGED <<subfolders, file_manager, peers, disk, work_queue, serverVars, scanVars,
                   parseVars, crumbVars, httpVars,
                   rangeVars, lockVars>>

\* A request for document doc has find_peers called.
FindPeers(doc) ==
    /\ peers = None
    /\ peers' = Some([of |-> doc,
                      info |-> find_peers(file_manager, doc, index_file, siblings)])
    /\ UNCHANGED <<siblings, subfolders, file_manager, disk, work_queue, serverVars,
                   scanVars, parseVars, crumbVars, httpVars,
                   rangeVars, lockVars>>

\* --------------------------------------------- the request handlers (main.rs)
\* A response: its status, what its body is, and its Location header.
Response(status, body, location) ==
    [status |-> status, body |-> body, location |-> location]

\* Redirect::permanent(uri).
Permanent(uri) == Response(308, "empty", Some(uri))

\* The handler panicked: the task of the connection ends and the client gets
\* no response.
NoResponse == Response(0, "none", None)

\* Result<Response, ChimeraError>, and the unwinding of a panic.
Returned(resp) == [tag |-> "Ok", resp |-> resp, err |-> ""]
Failed(err) == [tag |-> "Err", resp |-> NoResponse, err |-> err]
Panicked == [tag |-> "Panic", resp |-> NoResponse, err |-> ""]

\* The request paths, each one component long.
HomeA == <<"a", ".", "m", "d">>
HomeUpper == <<"N", ".", "M", "D">>
HomeDocs == <<"d", "o", "c", "s">>
HomeCss == <<"s", ".", "c", "s", "s">>
HomeOld == <<"o", "l", "d">>
HomePaths == {HomeA, HomeUpper, SegIndex, HomeDocs, HomeCss, HomeOld}

\* The configured redirects (AppState.known_redirects).
RedirectTarget == <<"/", "h", "o", "m", "e", "/", "a", ".", "m", "d">>
known_redirects == [p \in {HomeOld} |-> RedirectTarget]

\* The queries of the search form.
QueryGood == <<"r", "u", "s", "t">>
QueryBad == <<"(", "r", "u", "s", "t">>
Queries == {None, Some(<<>>), Some(QueryGood), Some(QueryBad)}

\* has_extension (484-489).
has_extension(file_name, match_ext) ==
    /\ Extension(file_name) # None
    /\ eq_ignore_ascii_case(Extension(file_name)[1], match_ext)

QueryParsesAs(q) == TRUE

\* QueryParser::parse_query (full_text_index.rs 117): a query with an
\* unclosed parenthesis is a syntax error.
QueryParses(q) ==
    Cardinality({i \in 1..Len(q) : q[i] = "("})
       = Cardinality({i \in 1..Len(q) : q[i] = ")"})

\* FullTextIndex::search (114-141).
search(r) ==
    IF ~QueryParses(r.query[1]) THEN Failed("QueryError")
    ELSE IF ~r.search_ok THEN Failed("TantivyError")
    ELSE Returned(Response(200, "results", None))

\* handle_404 (chimera_error.rs 98-107) and handle_err (109-118), followed by
\* into_response: the error template, or the last-chance text of
\* IntoResponse for ChimeraError (91-96).
handle_404(r) ==
    IF r.error_ok THEN Response(404, "error_page", None)
    ELSE Response(500, "text", None)

handle_err(r) ==
    IF r.error_ok THEN Response(500, "error_page", None)
    ELSE Response(500, "text", None)

\* serve_markdown_file (520-577).
serve_markdown_file(r, index_name) ==
    IF r.cache_hit THEN Returned(Response(200, "markdown", None))
    ELSE IF r.entity # "absent"
         THEN IF r.entity = "dir" \/ ~r.read_ok THEN Failed("IOError")
              ELSE IF ~r.parse_ok THEN Panicked
              ELSE IF ~r.render_ok THEN Failed("TemplateParsing")
              ELSE Returned(Response(200, "markdown", None))
         ELSE IF r.path = index_name
              THEN IF ~r.render_ok THEN Failed("TemplateParsing")
                   ELSE Returned(Response(200, "index", None))
              ELSE Returned(Response(404, "empty", None))

\* serve_static_file (579-585): what ServeDir answers, or its io::Error.
serve_static_file(r) ==
    IF r.static = 0 THEN Failed("IOError")
    ELSE Returned(Response(r.static, "static", None))

\* get_response (587-602).
get_response(r, index_name) ==
    IF has_extension(r.path, <<"m", "d">>)
    THEN serve_markdown_file(r, index_name)
    ELSE IF r.entity = "dir"
         THEN Returned(Permanent(HOME_DIR \o <<"/">> \o r.path \o <<"/">>
                                 \o index_name))
         ELSE serve_static_file(r)

\* handle_home (437-465).
handle_home(r, index_name) ==
    LET res == get_response(r, index_name)
    IN  CASE res.tag = "Panic" -> NoResponse
          [] res.tag = "Ok" ->
                IF res.resp.status \in 200..399 THEN res.resp
                ELSE IF res.resp.status = 404 THEN handle_404(r)
                ELSE handle_err(r)
          [] res.tag = "Err" ->
                IF res.err = "IOError" THEN handle_404(r) ELSE handle_err(r)

\* handle_root_path (403-426).
handle_root_path(r) ==
    IF r.path \in DOMAIN known_redirects
    THEN Permanent(known_redirects[r.path])
    ELSE LET res == serve_static_file(r)
         IN  IF res.tag = "Ok" THEN res.resp ELSE handle_404(r)

\* handle_search (383-401).
handle_search(r) ==
    LET found == IF r.query # None /\ r.query[1] # <<>>
                 THEN search(r) ELSE Failed("")
    IN  IF found.tag = "Ok" /\ r.results_ok
        THEN Response(200, "results", None)
        ELSE IF r.blank_ok THEN Response(200, "blank", None)
             ELSE handle_err(r)

\* A request: its route and path or query, and what the handler will meet:
\* what is at the path on disk, whether the result cache has the page,
\* whether the file can be read, whether its front matter lets
\* parse_markdown return, whether each template renders, the status ServeDir
\* answers with (0 for an io::Error) and whether the index can be searched.
Request(route, path, query, meets) ==
    [route |-> route, path |-> path, query |-> query,
     entity |-> meets.entity, cache_hit |-> meets.cache_hit,
     read_ok |-> meets.read_ok, parse_ok |-> meets.parse_ok,
     render_ok |-> meets.render_ok, static |-> meets.static,
     search_ok |-> meets.search_ok, results_ok |-> meets.results_ok,
     blank_ok |-> meets.blank_ok, error_ok |-> meets.error_ok]

Quiet == [entity |-> "file", cache_hit |-> FALSE, read_ok |-> TRUE,
          parse_ok |-> TRUE, render_ok |-> TRUE, static |-> 200,
          search_ok |-> TRUE, results_ok |-> TRUE, blank_ok |-> TRUE,
          error_ok |-> TRUE]

\* GET /home/{path}.
HandleHome ==
    /\ http_req # None
    /\ http_req[1].route = "home"
    /\ response = None
    /\ response' = Some(handle_home(http_req[1], index_file))
    /\ UNCHANGED <<http_req, peerVars, rangeVars, lockVars, disk, work_queue, serverVars, scanVars,
                   parseVars, crumbVars>>

\* GET /{path}.
HandleRootPath ==
    /\ http_req # None
    /\ http_req[1].route = "root"
    /\ response = None
    /\ response' = Some(handle_root_path(http_req[1]))
    /\ UNCHANGED <<http_req, peerVars, rangeVars, lockVars, disk, work_queue, serverVars, scanVars,
                   parseVars, crumbVars>>

\* GET /search.
HandleSearch ==
    /\ http_req # None
    /\ http_req[1].route = "search"
    /\ response = None
    /\ response' = Some(handle_search(http_req[1]))
    /\ UNCHANGED <<http_req, peerVars, rangeVars, lockVars, disk, work_queue, serverVars, scanVars,
                   parseVars, crumbVars>>

\* ---------------------------------- normalize_ranges (full_text_index.rs)
\* Range<usize> { start, end }.
Range(start, end) == [start |-> start, end |-> end]

\* normalize_ranges, lines 168-179, from range i on.
RECURSIVE RangesFrom(_, _, _, _, _)
RangesFrom(ranges, i, start, end, results) ==
    IF i > Len(ranges)
    THEN IF start # end THEN Append(results, Range(start, end)) ELSE results
    ELSE LET r == ranges[i]
         IN  IF r.start > end
             THEN RangesFrom(ranges, i + 1, r.start, r.end,
                             IF start # end
                             THEN Append(results, Range(start, end))
                             ELSE results)
             ELSE RangesFrom(ranges, i + 1, start, r.end, results)

\* normalize_ranges (164-185).
normalize_ranges(ranges) == RangesFrom(ranges, 1, 0, 0, <<>>)

\* highlight, line 149.
NormalizeRanges ==
    /\ spans = None
    /\ spans' = Some(normalize_ranges(highlights))
    /\ UNCHANGED <<highlights, disk, work_queue, serverVars, scanVars,
                   parseVars, crumbVars, peerVars, httpVars, lockVars>>

\* -------------------------------------------------------- specifications
\* Spec: the result cache in service.  The state is the one right after
\* ResultCache::listen_for_changes (main.rs 129-130): the cache is empty and
\* its listener is the only subscriber so far.  Requests, file modifications,
\* the compactor and the change events that reach the cache run from there.
CacheBatches == { Ok(<<Ev("Modify", MdA, <<MdA>>)>>),
                  Ok(<<Ev("Remove", Css, <<Css>>)>>),
                  Ok(<<Ev("Modify", Tmpl, <<Tmpl, Toml>>)>>) }

Init ==
    /\ InitCommon
    /\ rx = [s \in Subscribers |-> IF s = "rc" THEN OpenRx(0) ELSE NoRx]

Next ==
    \/ \E h \in Handlers, p \in MdPaths : GetModtime(h, p)
    \/ \E h \in Handlers : GetLookup(h)
    \/ \E h \in Handlers : GetSendClean(h)
    \/ \E h \in Handlers : ReadFile(h)
    \/ \E h \in Handlers : AddModtime(h)
    \/ \E h \in Handlers : AddStore(h)
    \/ \E h \in Handlers : AddSendCompact(h)
    \/ \E h \in Handlers : Respond(h)
    \/ \E p \in MdPaths : ModifyFile(p)
    \/ CompactorCompact
    \/ CompactorClean
    \/ \E b \in CacheBatches : batches < MaxCacheBatches /\ DebouncerEmit(b)
    \/ WatcherRecv
    \/ WatcherPublish
    \/ RcListen

Spec == Init /\ [][Next]_vars

\* SpecWatch: the file watcher and its subscribers.  The state is the one
\* right after FileManager::new (file_manager.rs 28-62): the watcher task
\* runs and the receiver that came with the channel has been dropped, so
\* nobody is subscribed yet.
InitWatch ==
    /\ InitCommon
    /\ rx = [s \in Subscribers |-> NoRx]

NextWatch ==
    \/ \E s \in Subscribers : Subscribe(s)
    \/ \E b \in Batches : DebouncerEmit(b)
    \/ WatcherRecv
    \/ WatcherPublish
    \/ \E s \in Subscribers : ListenerLagged(s)
    \/ RcListen
    \/ FtiListen
    \/ IscListen
    \/ ScannerRecv

SpecWatch == InitWatch /\ [][NextWatch]_vars

\* SpecScan: the full text index across restarts.  The state is the one in
\* which scan_directory has spawned the scanner for the first time: no
\* ft.toml, an empty index, any set of Markdown files on disk.
InitScan ==
    /\ InitServer
    /\ rx = [s \in Subscribers |-> NoRx]
    /\ ParseIdle
    /\ CrumbIdle
    /\ PeerIdle
    /\ HttpIdle
    /\ RangeIdle
    /\ LockIdle
    /\ on_disk \in SUBSET MdPaths
    /\ file_times = NoTimes
    /\ ft_toml = NoTimes
    /\ index_writer = {}
    /\ index = {}
    /\ scanner = [ScannerOff EXCEPT !.pc = "prune"]
    /\ feed \in Orders(on_disk)
    /\ seen_deleted = {}

NextScan ==
    \/ Restart
    \/ FeedSend
    \/ \E p \in MdPaths : FtiForward(p)
    \/ \E p \in MdPaths : WriteFile(p)
    \/ \E p \in MdPaths : RemoveFile(p)
    \/ ScanPrune
    \/ ScanRecv
    \/ ScanCheck
    \/ ScanRead
    \/ ScanSaveOpen
    \/ ScanSaveWrite
    \/ ScanCommit

SpecScan == InitScan /\ [][NextScan]_vars

\* SpecParse: one request's parse_markdown and add_anchors_to_headings, for
\* every document of Docs.
InitParse ==
    /\ InitServer
    /\ rx = [s \in Subscribers |-> NoRx]
    /\ ScanIdle
    /\ CrumbIdle
    /\ PeerIdle
    /\ HttpIdle
    /\ RangeIdle
    /\ LockIdle
    /\ md \in Docs
    /\ events = ParserEvents(md)
    /\ scraper = NewScraper
    /\ html_content = <<>>
    /\ stage = "scrape"

NextParse ==
    \/ CheckEvent
    \/ ParseFinish
    \/ AddAnchors

SpecParse == InitParse /\ [][NextParse]_vars

\* SpecNorm: normalize_headings on every sequence of at most MaxLinks links
\* of levels 1 to 6.
LinkLists ==
    UNION { { [i \in 1..n |-> InternalLink(<<"h">>, <<"h">>, ls[i])] :
                ls \in [1..n -> 1..6] } : n \in 0..MaxLinks }

InitNorm ==
    /\ InitServer
    /\ rx = [s \in Subscribers |-> NoRx]
    /\ ScanIdle
    /\ CrumbIdle
    /\ PeerIdle
    /\ HttpIdle
    /\ RangeIdle
    /\ LockIdle
    /\ md = <<>>
    /\ events = <<>>
    /\ \E links \in LinkLists : scraper = [NewScraper EXCEPT !.internal_links = links]
    /\ html_content = <<>>
    /\ stage = "normalize"

NextNorm ==
    \/ NormalizeHeadings
    \/ GenerateAnchorHtml

SpecNorm == InitNorm /\ [][NextNorm]_vars

\* SpecCrumbs: get_breadcrumbs on every path of at most MaxSegments segments,
\* with either of two configured index files.
InitCrumbs ==
    /\ InitServer
    /\ rx = [s \in Subscribers |-> NoRx]
    /\ ScanIdle
    /\ ParseIdle
    /\ crumb_path \in UNION {[1..n -> Segments] : n \in 1..MaxSegments}
    /\ index_file \in {SegIndex, SegC}
    /\ breadcrumbs = None
    /\ PeerIdle
    /\ HttpIdle
    /\ RangeIdle
    /\ LockIdle

NextCrumbs == GetBreadcrumbs

SpecCrumbs == InitCrumbs /\ [][NextCrumbs]_vars

\* SpecPeers: FileManager::new (28-62) has walked a directory that holds any
\* of the files and folders, in any order of the walk; then files come and
\* go and find_peers is called for a document.
InitPeers ==
    /\ InitServer
    /\ rx = [s \in Subscribers |-> NoRx]
    /\ ScanIdle
    /\ ParseIdle
    /\ HttpIdle
    /\ RangeIdle
    /\ LockIdle
    /\ crumb_path = <<>>
    /\ index_file = SegIndex
    /\ breadcrumbs = None
    /\ siblings \in SUBSET PeerNames
    /\ subfolders \in {fs \in SUBSET Folders :
                          \A f, g \in fs : f.name = g.name => f = g}
    /\ file_manager \in {[files |-> fi, folders |-> fo] :
                            fi \in Orders(siblings),
                            fo \in Orders({f.name : f \in subfolders})}
    /\ peers = None

NextPeers ==
    \/ \E n \in PeerNames : CreateSibling(n)
    \/ \E n \in PeerNames : RemoveSibling(n)
    \/ \E doc \in PeerNames : FindPeers(doc)

SpecPeers == InitPeers /\ [][NextPeers]_vars

\* SpecHttp: one request on one of the routes, with every combination of
\* what its handler can meet.  The result cache has a page only for a file
\* that exists or for the generated index.
HomeRequests ==
    { Request("home", p, None,
              [Quiet EXCEPT !.entity = e, !.cache_hit = c, !.read_ok = rd,
                            !.parse_ok = pa, !.render_ok = re, !.static = st,
                            !.error_ok = er]) :
        p \in HomePaths, e \in {"file", "dir", "absent"}, c \in BOOLEAN,
        rd \in BOOLEAN, pa \in BOOLEAN, re \in BOOLEAN,
        st \in {0, 200, 404, 405}, er \in BOOLEAN }

RootRequests ==
    { Request("root", p, None,
              [Quiet EXCEPT !.static = st, !.error_ok = er]) :
        p \in HomePaths, st \in {0, 200, 404}, er \in BOOLEAN }

SearchRequests ==
    { Request("search", <<>>, q,
              [Quiet EXCEPT !.search_ok = s, !.results_ok = rs,
                            !.blank_ok = b, !.error_ok = er]) :
        q \in Queries, s \in BOOLEAN, rs \in BOOLEAN, b \in BOOLEAN,
        er \in BOOLEAN }

InitHttp ==
    /\ InitServer
    /\ rx = [s \in Subscribers |-> NoRx]
    /\ ScanIdle
    /\ ParseIdle
    /\ PeerIdle
    /\ crumb_path = <<>>
    /\ index_file = SegIndex
    /\ breadcrumbs = None
    /\ \E r \in HomeRequests \cup RootRequests \cup SearchRequests :
          /\ r.cache_hit => /\ has_extension(r.path, <<"m", "d">>)
                            /\ (r.entity = "file" \/ r.path = index_file)
          /\ http_req = Some(r)
    /\ response = None
    /\ RangeIdle
    /\ LockIdle

NextHttp ==
    \/ HandleHome
    \/ HandleRootPath
    \/ HandleSearch

SpecHttp == InitHttp /\ [][NextHttp]_vars

\* SpecRanges: normalize_ranges on every list of at most MaxRanges non-empty
\* ranges within a snippet of MaxSnippet bytes, ordered by start.
SnippetRanges ==
    {r \in [start : 0..MaxSnippet, end : 0..MaxSnippet] : r.start < r.end}

InitRanges ==
    /\ InitServer
    /\ rx = [s \in Subscribers |-> NoRx]
    /\ ScanIdle
    /\ ParseIdle
    /\ CrumbIdle
    /\ PeerIdle
    /\ HttpIdle
    /\ highlights \in UNION { { hs \in [1..n -> SnippetRanges] :
                                  \A i \in 1..(n - 1) : hs[i].start <= hs[i + 1].start } :
                              n \in 0..MaxRanges }
    /\ spans = None
    /\ LockIdle

NextRanges == NormalizeRanges

SpecRanges == InitRanges /\ [][NextRanges]_vars

\* SpecStartup: the first start of the server from the call of
\* scan_directory on.  The result cache has subscribed (main.rs 130-131), the
\* scanner has been spawned and the files the walk listed wait to be sent;
\* files are modified at any moment.  Every task is scheduled fairly.
InitStartup ==
    /\ InitServer
    /\ rx = [s \in Subscribers |-> IF s = "rc" THEN OpenRx(0) ELSE NoRx]
    /\ ParseIdle
    /\ CrumbIdle
    /\ PeerIdle
    /\ HttpIdle
    /\ RangeIdle
    /\ LockIdle
    /\ on_disk = MdPaths
    /\ file_times = NoTimes
    /\ ft_toml = NoTimes
    /\ index_writer = {}
    /\ index = {}
    /\ scanner = [ScannerOff EXCEPT !.pc = "prune"]
    /\ feed \in Orders(on_disk)
    /\ seen_deleted = {}

NextStartup ==
    \/ FeedSend
    \/ ScanSubscribe
    \/ \E p \in MdPaths : ModifyAndNotify(p)
    \/ WatcherRecv
    \/ WatcherPublish
    \/ RcListen
    \/ FtiListen
    \/ ScanPrune
    \/ ScanRecv
    \/ ScanCheck
    \/ ScanRead
    \/ ScanSaveOpen
    \/ ScanSaveWrite
    \/ ScanCommit

SpecStartup ==
    /\ InitStartup
    /\ [][NextStartup]_vars
    /\ WF_vars(FeedSend)
    /\ WF_vars(ScanSubscribe)
    /\ WF_vars(WatcherRecv)
    /\ WF_vars(WatcherPublish)
    /\ WF_vars(RcListen)
    /\ WF_vars(FtiListen)
    /\ WF_vars(ScanPrune)
    /\ WF_vars(ScanRecv)
    /\ WF_vars(ScanCheck)
    /\ WF_vars(ScanRead)
    /\ WF_vars(ScanSaveOpen)
    /\ WF_vars(ScanSaveWrite)
    /\ WF_vars(ScanCommit)

\* SpecLive: the result cache under fair scheduling.  Requests, file
\* modifications and change events arrive at any moment; a Compact signal that finds the
\* counter below max_size either wraps (CompactorCompact) or panics
\* (CompactorPanics), as the build decides; every task that can take a step
\* eventually takes one.
NextLive ==
    \/ \E h \in Handlers, p \in MdPaths : GetModtime(h, p)
    \/ \E h \in Handlers : ~poisoned /\ GetLookup(h)
    \/ \E h \in Handlers : GetPoisoned(h)
    \/ \E h \in Handlers : ~ReceiverDropped(compactor) /\ GetSendClean(h)
    \/ \E h \in Handlers : ReadFile(h)
    \/ \E h \in Handlers : AddModtime(h)
    \/ \E h \in Handlers : ~poisoned /\ AddStore(h)
    \/ \E h \in Handlers : AddPoisoned(h)
    \/ \E h \in Handlers : ~ReceiverDropped(compactor) /\ AddSendCompact(h)
    \/ \E h \in Handlers : SendFails(h)
    \/ \E h \in Handlers : Respond(h)
    \/ \E p \in MdPaths : ModifyFile(p)
    \/ ClearOnChange
    \/ compactor = "running" /\ CompactorCompact
    \/ compactor = "running" /\ CompactorClean
    \/ CompactorPanics

\* One step of the call that handler h is in.
CallStep(h) ==
    \/ ~poisoned /\ GetLookup(h)
    \/ GetPoisoned(h)
    \/ ~ReceiverDropped(compactor) /\ GetSendClean(h)
    \/ ReadFile(h)
    \/ AddModtime(h)
    \/ ~poisoned /\ AddStore(h)
    \/ AddPoisoned(h)
    \/ ~ReceiverDropped(compactor) /\ AddSendCompact(h)
    \/ SendFails(h)

\* One step of the compactor task.
CompactorStep ==
    \/ compactor = "running" /\ CompactorCompact
    \/ compactor = "running" /\ CompactorClean
    \/ CompactorPanics

SpecLive ==
    /\ Init
    /\ [][NextLive]_vars
    /\ \A h \in Handlers : WF_vars(CallStep(h))
    /\ WF_vars(CompactorStep)

TypeOK ==
    /\ current_size \in 0..(Modulus - 1)
    /\ Len(signal_q) <= SignalCapacity
    /\ \A h \in Handlers :
          req[h].expect => last_added[req[h].path] # None

\* ------------------------------------------------------------ properties
\* The step in which handler h leaves the program point pc.
Leaves(h, pc) == req[h].pc = pc /\ req'[h].pc # pc

\* C1: a get(path) issued after add(path, html) stored the page, with the
\* file's modtime as add read it and no change event, clear, eviction or
\* other add of that entry in between, returns exactly the html stored.
C1_AddThenGetReturnsStored ==
    [][\A h \in Handlers :
          (Leaves(h, "get_lookup") /\ req[h].expect)
             => /\ req'[h].pc = "done"
                /\ req'[h].result = last_added[req[h].path]]_vars

C1_Witness ==
    \E h \in Handlers :
        /\ req[h].pc = "done"
        /\ req[h].expect
        /\ req[h].result # None
        /\ req[h].result = last_added[req[h].path]
        /\ IndexOf(cache, req[h].path) = 2

\* C2: get returns an entry only when its stored modtime equals the modtime
\* get read from the disk; for an entry with another modtime it misses and
\* sends Clean, and the handler then renders the file as it is on disk.
C2_StaleEntryMissesAndCleans ==
    [][\A h \in Handlers :
          LET p == req[h].path
          IN  /\ Leaves(h, "get_lookup") =>
                 /\ req'[h].result # None =>
                       /\ ContainsKey(cache, p)
                       /\ MapGet(cache, p).modtime = req[h].modtime
                       /\ req'[h].result = Some(MapGet(cache, p).html)
                 /\ (ContainsKey(cache, p) /\ MapGet(cache, p).modtime # req[h].modtime)
                       => (req'[h].pc = "send_clean" /\ req'[h].result = None)
              /\ Leaves(h, "send_clean") =>
                 /\ signal_q' = Append(signal_q, "Clean")
                 /\ req'[h].pc = "read_file"
                 /\ req'[h].result = None
              /\ Leaves(h, "read_file") =>
                 /\ req'[h].html = RenderedPage(p, disk[p])
                 /\ disk[p] >= req[h].modtime]_vars

C2_Witness ==
    \E h \in Handlers :
        /\ req[h].pc = "read_file"
        /\ ContainsKey(cache, req[h].path)
        /\ MapGet(cache, req[h].path).modtime # req[h].modtime
        /\ \E i \in 1..Len(signal_q) : signal_q[i] = "Clean"

\* C3 as stated: the first get issued after a change event for a cached .md
\* path was published, the cache being subscribed, returns a miss.
C3_NextGetAfterPublishMisses ==
    [][\A h \in Handlers :
          (Leaves(h, "get_lookup") /\ req[h].after_change)
             => req'[h].result = None]_vars

\* C3 as amended: when the cache's listener receives a change event for an
\* .md path it empties the map, and a lookup that finds the map empty is a
\* miss: the next get(path) misses unless an add came in between.
C3_ReceivedChangeClears ==
    [][/\ (rx'["rc"].next = rx["rc"].next + 1
           /\ Extension(bc_log[rx["rc"].next]) = Some(<<"md">>))
             => cache' = <<>>
       /\ \A h \in Handlers :
             (Leaves(h, "get_lookup") /\ cache = <<>>)
                => (req'[h].pc = "read_file" /\ req'[h].result = None)]_vars

C3_Witness ==
    /\ rx["rc"].next > 1
    /\ Extension(bc_log[rx["rc"].next - 1]) = Some(<<"md">>)
    /\ cache = <<>>
    /\ current_size > 0
    /\ \E h \in Handlers :
          /\ req[h].pc = "read_file"
          /\ req[h].path = bc_log[rx["rc"].next - 1]
          /\ req[h].after_change

\* C4: an entry holding html rendered from content the file no longer has
\* carries a modtime other than the file's, so that the modtime check of the
\* next get finds it stale.
C4_OldRenderIsDetectable ==
    \A i \in 1..Len(cache) :
        cache[i].html # RenderedPage(cache[i].path, disk[cache[i].path])
           => cache[i].modtime # disk[cache[i].path]

\* C5: once the compactor has processed every Compact signal the adds
\* produced, current_size is at most max_size.
C5_SizeWithinCapAfterCompaction ==
    (/\ \A i \in 1..Len(signal_q) : signal_q[i] # "Compact"
     /\ \A h \in Handlers : req[h].pc # "send_compact")
        => current_size <= MaxCacheSize

\* C6: current_size equals the summed byte length of the html in the map.
C6_SizeIsSumOfEntries == current_size = TotalSize(cache)

\* C7: add for a path already in the map replaces that entry: afterwards
\* the map has as many entries as before, exactly one of them for the path,
\* holding the new html, and current_size has changed by the difference of
\* the two lengths.
C7_AddReplacesPriorEntry ==
    [][\A h \in Handlers :
          (Leaves(h, "add_store") /\ ContainsKey(cache, req[h].path))
             => LET p == req[h].path
                    old == MapGet(cache, p).html
                IN  /\ Len(cache') = Len(cache)
                    /\ Cardinality({i \in 1..Len(cache') : cache'[i].path = p}) = 1
                    /\ MapGet(cache', p).html = req[h].html
                    /\ current_size' =
                          (current_size + Len(req[h].html) - Len(old) + Modulus)
                             % Modulus]_vars

C7_Witness ==
    \E h \in Handlers :
        /\ req[h].pc \in {"done", "send_compact"}
        /\ req[h].prev # None
        /\ Len(req[h].prev[1].html) # Len(req[h].html)
        /\ ContainsKey(cache, req[h].path)
        /\ MapGet(cache, req[h].path).html = req[h].html

\* C8: every path published after a subscriber's subscribe() call is
\* delivered to it (it has received it, or the channel still holds it for
\* the listening subscriber), and a subscriber receives no path published
\* before its subscribe() call.
C8_FanOutToEverySubscriber ==
    \A s \in Subscribers :
        rx[s].state # "none" =>
            /\ rx[s].next > rx[s].since
            /\ \A i \in (rx[s].since + 1)..Len(bc_log) :
                  \/ i < rx[s].next
                  \/ (rx[s].state = "open" /\ i >= Oldest)

\* C9: a publication that fails for want of a receiver does not end the
\* watcher task.
C9_FailedPublicationIsIgnored == watcher.pc # "failed"

\* C10: no listener ever stops listening, and the channel never overwrites
\* a path that a listening subscriber has yet to receive.
C10_ListenersNeverLoseEvents ==
    \A s \in Subscribers :
        /\ rx[s].state # "closed"
        /\ rx[s].state = "open" => rx[s].next >= Oldest

\* The scanner waits for the next path and nothing is left to hand it.
ScannerIdle == scanner.pc = "recv" /\ work_queue = <<>> /\ feed = <<>>

\* C11: a document whose file has been deleted, once the scanner has
\* reconciled the deletion (the startup prune found the path in ft.toml, or a
\* pass found the file gone) and has drained its queue, is absent from the
\* committed index and from the modtime map.
C11_DeletedDocumentLeavesIndex ==
    \A p \in MdPaths :
        (ScannerIdle /\ p \in seen_deleted /\ p \notin on_disk)
            => (~HasDoc(index, p) /\ file_times[p] = None)

\* C12: every path of the modtime map has a committed document: the map as
\* ft.toml holds it at any moment, where a crash can leave it, and the map in
\* memory with the documents a commit is about to publish.
C12_ModtimeMapHasCommittedDocs ==
    /\ \A p \in MdPaths : ft_toml[p] # None => HasDoc(index, p)
    /\ scanner.pc = "commit" =>
          \A p \in MdPaths : file_times[p] # None => HasDoc(index_writer, p)

\* C13: whenever the work queue is empty and the scanner waits for the next
\* path, every document added or deleted has been committed and the modtime
\* map has been saved.
C13_DrainedQueueIsCommitted ==
    (scanner.pc = "recv" /\ work_queue = <<>>)
        => (index_writer = index /\ ft_toml = file_times)

\* C14: after normalize_headings no link lies more than one level below the
\* link before it, whatever levels 1..6 the links had.
C14_DepthGrowsByAtMostOne ==
    stage = "normalized" =>
        \A i \in 1..(Len(scraper.internal_links) - 1) :
            scraper.internal_links[i + 1].level
                <= scraper.internal_links[i].level + 1

\* parse_markdown has returned.
Parsed == stage \in {"parsed", "rendered"}

\* All the text inside a heading, in order, that of its code spans and links
\* included.
HeadingText(b) == Concat([i \in 1..Len(b.items) |-> b.items[i].text])

\* C15: the title is the text of the first Markdown heading of the document,
\* and there is none when the document has no heading.
C15_TitleIsFirstHeading ==
    Parsed =>
        LET IsHeading(b) == b.kind = "heading"
            headings == SelectSeq(md, IsHeading)
        IN  scraper.title = IF headings = <<>> THEN None
                            ELSE Some(HeadingText(headings[1]))

\* C16: when every event has been scraped, the headings of the document, in
\* order, have one InternalLink each, named by all the text of the heading.
C16_OneLinkPerHeadingNamedByItsText ==
    (stage = "scrape" /\ events = <<>>) =>
        LET IsHeading(b) == b.kind \in {"heading", "raw"}
            headings == SelectSeq(md, IsHeading)
        IN  /\ Len(scraper.internal_links) = Len(headings)
            /\ \A i \in 1..Len(headings) :
                  scraper.internal_links[i].name =
                      IF headings[i].kind = "raw" THEN headings[i].text
                      ELSE HeadingText(headings[i])

\* a is b with some elements left out.
RECURSIVE IsSubseq(_, _)
IsSubseq(a, b) ==
    \/ a = <<>>
    \/ /\ b # <<>>
       /\ IF Head(a) = Head(b) THEN IsSubseq(Tail(a), Tail(b))
          ELSE IsSubseq(a, Tail(b))

\* C17: code_languages holds, in document order and as often as they occur,
\* the tokens of the fenced blocks whose token is in CODE_LANGUAGES, and it
\* holds no entry outside CODE_LANGUAGES.
C17_CodeLanguagesFromAllowlist ==
    Parsed =>
        LET IsListed(b) == b.kind = "fence" /\ b.text \in CODE_LANGUAGES
            listed == SelectSeq(md, IsListed)
        IN  /\ IsSubseq([i \in 1..Len(listed) |-> listed[i].text],
                        scraper.code_languages)
            /\ \A i \in 1..Len(scraper.code_languages) :
                  scraper.code_languages[i] \in CODE_LANGUAGES

\* A parsed document with the same listed token on two fences and a fence
\* whose token is not listed.
C17_Witness ==
    /\ stage = "parsed"
    /\ Len(scraper.code_languages) = 2
    /\ scraper.code_languages[1] = scraper.code_languages[2]
    /\ \E i \in 1..Len(md) : md[i].kind = "fence" /\ md[i].text \notin CODE_LANGUAGES
    /\ \E i, j \in 1..Len(md) :
          i < j /\ md[i].kind = "fence" /\ md[i] = md[j]
                /\ md[i].text \in CODE_LANGUAGES

\* C18: front-matter never makes the parse fail, and the metadata are the
\* entries of its mapping whose value is a string; any other front-matter
\* gives no metadata.
C18_FrontMatterNeverFails ==
    /\ stage # "panicked"
    /\ Parsed =>
          scraper.metadata =
              IF md # <<>> /\ md[1].kind = "meta"
                 /\ \A i \in 1..Len(md[1].items) : md[1].items[i].key # ""
              THEN { <<md[1].items[i].key, md[1].items[i].text>> :
                        i \in {j \in 1..Len(md[1].items) :
                                  md[1].items[j].kind = "str"} }
              ELSE {}

\* The id attribute of the heading tag that opens at character i of body.
IdOf(body, i) ==
    IF i + 7 <= Len(body)
       /\ SubSeq(body, i + 3, i + 7) = <<" ", "i", "d", "=", "\"">>
    THEN LET close == CHOOSE k \in (i + 8)..Len(body) :
                          /\ body[k] = "\""
                          /\ \A j \in (i + 8)..(k - 1) : body[j] # "\""
         IN  Some(SubSeq(body, i + 8, close - 1))
    ELSE None

\* C19: in the body add_anchors_to_headings returned, the k-th heading tag
\* has the anchor of the k-th InternalLink as its id, the Top link not
\* counted.
C19_HeadingIdsAreLinkAnchors ==
    stage = "rendered" =>
        LET body == html_content
            opens == {i \in 1..(Len(body) - 2) :
                         /\ body[i] = "<" /\ body[i + 1] = "h"
                         /\ \E d \in 2..7 : Digits[d] = body[i + 2]}
            start == IF scraper.starts_with_heading THEN 0 ELSE 1
        IN  \A i \in opens :
                LET k == Cardinality({j \in opens : j <= i})
                IN  /\ start + k <= Len(scraper.internal_links)
                    /\ IdOf(body, i)
                           = Some(scraper.internal_links[start + k].anchor)

\* The texts of the spans of a trail.
CrumbNames(trail) == [i \in 1..Len(trail) |-> trail[i].name]

\* C20 as stated: the trail of a/b/c.md is exactly Home, a, b, and a final
\* segment that is the index file is not in the trail.
C20_TrailIsHomeAB ==
    breadcrumbs # None =>
        /\ (crumb_path = <<SegA, SegB, SegC>> /\ index_file # SegC)
              => CrumbNames(breadcrumbs[1])
                     = <<<<"H", "o", "m", "e">>, SegA, SegB>>
        /\ crumb_path[Len(crumb_path)] = index_file
              => \A i \in 1..Len(breadcrumbs[1]) :
                    breadcrumbs[1][i].name # index_file

\* C20: for a path that names the index file in its last segment at most,
\* the trail is Home, then a link for every shown segment but the last, then
\* the last shown segment as a label without a link; the shown segments are
\* those of the path without a final index file.  For a/b/c.md: Home, a and
\* b as links, c.md as the label.
C20_TrailEndsInLabel ==
    (/\ breadcrumbs # None
     /\ \A i \in 1..(Len(crumb_path) - 1) : crumb_path[i] # index_file) =>
        LET trail == breadcrumbs[1]
            shown == IF crumb_path[Len(crumb_path)] = index_file
                     THEN SubSeq(crumb_path, 1, Len(crumb_path) - 1)
                     ELSE crumb_path
        IN  /\ CrumbNames(trail) = <<<<"H", "o", "m", "e">>>> \o shown
            /\ trail[1].class = "home" /\ trail[1].href # None
            /\ \A i \in 2..Len(trail) :
                  /\ trail[i].class = "crumb"
                  /\ (trail[i].href = None) <=> (i = Len(trail))

\* The trail of a/b/index.md has been built: the index file is left out and
\* b is the label.
C20_Witness ==
    /\ breadcrumbs # None
    /\ crumb_path = <<SegA, SegB, SegIndex>>
    /\ index_file = SegIndex
    /\ Len(breadcrumbs[1]) = 3

\* A step of the compactor that takes a Compact signal off the channel.
CompactStep ==
    /\ signal_q # <<>>
    /\ Head(signal_q) = "Compact"
    /\ signal_q' = Tail(signal_q)

\* C26: when the compactor processes a Compact signal and finds the counter
\* above max_size (and equal to what the map holds), the html left in the
\* map totals at most max_size bytes.
C26_RetainedHtmlWithinCap ==
    [][(/\ CompactStep
        /\ current_size > MaxCacheSize
        /\ current_size = TotalSize(cache))
          => TotalSize(cache') <= MaxCacheSize]_vars

\* C27: a Compact step leaves a suffix of the insertion order in the map,
\* every remaining entry with its key, html and modtime as before.
C27_CompactKeepsASuffix ==
    [][CompactStep
          => \E k \in 0..Len(cache) : cache' = SubSeq(cache, k + 1, Len(cache))]_vars

\* Two requests in all, the first added a.md and the second b.md, a.md has
\* never been modified (so no entry was ever stale and no Clean was sent),
\* and the map holds b.md alone: a Compact has discarded a.md, the older of
\* the two, and kept b.md.
C27_Witness ==
    /\ requests = 2
    /\ disk[MdA] = 1
    /\ KeysOf(cache) = {MdB}
    /\ \E h1, h2 \in Handlers :
          /\ req[h1].pc = "done" /\ req[h1].path = MdA /\ req[h1].html # None
          /\ req[h2].pc = "done" /\ req[h2].path = MdB /\ req[h2].html # None

\* C28: when the scanner takes the next path off the queue, at most
\* CommitEvery (twenty, scaled) documents have been counted since the last
\* commit.
C28_AtMostTwentyUnsynced ==
    scanner.pc = "recv" => scanner.docs_since_last_commit <= CommitEvery

\* The count alone makes the scanner commit: paths are still queued.
C28_Witness ==
    /\ scanner.pc = "save_open"
    /\ scanner.docs_since_last_commit = CommitEvery + 1
    /\ work_queue # <<>>

\* The documents of index ix whose link is p.
DocsOf(ix, p) == {d \in ix : d.link = p}

\* C29: a path whose modtime equals the one in the map leaves the index and
\* the map as they are; for any other path the scanner records the modtime
\* it read and deletes the documents with the path's link, and then, when
\* the file can be read, adds one document for it, so that the writer holds
\* exactly one document with that link, and none when it cannot.
C29_FreshnessCheck ==
    [][/\ (scanner.pc = "get_modtime" /\ scanner'.pc # "get_modtime"
             /\ scanner'.pc # "prune")
          => LET p == scanner.path
                 modtime == ScanModtime(p)
             IN  IF modtime # None /\ file_times[p] = modtime
                 THEN UNCHANGED <<index_writer, index, file_times>>
                 ELSE /\ DocsOf(index_writer', p) = {}
                      /\ \A q \in MdPaths \ {p} :
                            DocsOf(index_writer', q) = DocsOf(index_writer, q)
                      /\ file_times' = [file_times EXCEPT ![p] = modtime]
       /\ (scanner.pc = "read" /\ scanner'.pc # "read" /\ scanner'.pc # "prune")
          => LET p == scanner.path
             IN  /\ DocsOf(index_writer', p) =
                       IF p \in on_disk THEN {Doc(p, disk[p])} ELSE {}
                 /\ \A q \in MdPaths \ {p} :
                       DocsOf(index_writer', q) = DocsOf(index_writer, q)
                 /\ UNCHANGED <<index, file_times>>]_vars

\* A changed file has been indexed again: the committed index holds the
\* file's first version, the writer its second and no other, and the map
\* has the second version's modtime.
C29_Witness ==
    \E p \in MdPaths :
        /\ scanner.pc \in {"recv", "save_open"}
        /\ scanner.path = p
        /\ DocsOf(index, p) = {Doc(p, 1)}
        /\ DocsOf(index_writer, p) = {Doc(p, 2)}
        /\ file_times[p] = Some(2)

\* The blocks of document d after its front matter.
BodyOf(d) == SelectSeq(d, LAMBDA b : b.kind # "meta")

\* C30: the links of a parsed document start with the Top link exactly when
\* the first block of its body is not a Markdown heading (an empty body
\* included).
C30_TopIffNoOpeningHeading ==
    Parsed =>
        LET links == scraper.internal_links
            body == BodyOf(md)
        IN  (Len(links) > 0 /\ links[1] = Top)
               <=> ~(body # <<>> /\ body[1].kind = "heading")

\* C21: in the PeerInfo find_peers returned, a file named as the index file
\* is first, the other files are in the order of their names without regard
\* to case, and the folders are in the order of their names.
C21_PeersAreOrdered ==
    peers # None =>
        LET files == peers[1].info.files
            folders == peers[1].info.folders
            IsIndex(l) == eq_ignore_ascii_case(l.name, index_file)
        IN  /\ \A i \in 1..Len(files) : IsIndex(files[i]) => i = 1
            /\ \A i, j \in 1..Len(files) :
                  (i < j /\ ~IsIndex(files[i]) /\ ~IsIndex(files[j]))
                     => StrCmp(to_ascii_lowercase(files[i].name),
                               to_ascii_lowercase(files[j].name)) # "Greater"
            /\ \A i, j \in 1..Len(folders) :
                  i < j => StrCmp(folders[i].name, folders[j].name) # "Greater"

\* C22: find_peers for a document of the directory returns the Markdown
\* files that are in the directory when it is called, but for the document
\* itself, whatever files have been created and removed since the start.
C22_PeersAreTheFilesOnDisk ==
    [][(peers = None /\ peers' # None /\ peers'[1].of \in siblings)
          => {peers'[1].info.files[i].name :
                 i \in 1..Len(peers'[1].info.files)}
                = siblings \ {peers'[1].of}]_vars

\* The handler of the request has returned.
Answered(route) ==
    /\ response # None
    /\ http_req[1].route = route

\* C23: a request under /home/ for a Markdown file that is not there, or
\* whose reading fails, is answered 404 with the error page; one that fails
\* in another way is answered 500 with the error page; and when the error
\* template does not render the answer is the 500 text.
C23_ErrorsAreMapped ==
    Answered("home") =>
        LET r == http_req[1]
            is_md == has_extension(r.path, <<"m", "d">>)
            missing == is_md /\ ~r.cache_hit
                          /\ (r.entity # "file" \/ ~r.read_ok)
            failing == is_md /\ ~r.cache_hit /\ ~missing
                          /\ (~r.parse_ok \/ ~r.render_ok)
        IN  /\ missing =>
                  response[1] = IF r.error_ok
                                THEN Response(404, "error_page", None)
                                ELSE Response(500, "text", None)
            /\ failing =>
                  response[1] = IF r.error_ok
                                THEN Response(500, "error_page", None)
                                ELSE Response(500, "text", None)

C25_HomeDispatch ==
    Answered("home") =>
        LET r == http_req[1]
        IN  IF r.path \in DOMAIN known_redirects
            THEN response[1] = Permanent(known_redirects[r.path])
            ELSE IF has_extension(r.path, <<"m", "d">>)
                 THEN (r.entity = "file" /\ r.read_ok /\ r.parse_ok /\ r.render_ok)
                         => response[1] = Response(200, "markdown", None)
                 ELSE IF r.entity = "dir"
                      THEN response[1] =
                              Permanent(<<"/", "h", "o", "m", "e", "/">> \o r.path
                                        \o <<"/">> \o index_file)
                      ELSE r.static = 200
                              => response[1] = Response(200, "static", None)

\* The number of headings, Markdown or raw HTML, among the first j blocks.
HeadingRank(d, j) ==
    Cardinality({i \in 1..j : d[i].kind \in {"heading", "raw"}})

\* C31: a heading tag that already carries an id is left as it is and counts
\* for one link, so every Markdown heading of the rendered body carries the
\* anchor of the link of its own rank among all headings, the ones with an
\* id included.
C31_IdHeadingAdvancesLinkIndex ==
    stage = "rendered" =>
        LET start == IF scraper.starts_with_heading THEN 0 ELSE 1
            links == scraper.internal_links
            Out(j) ==
                IF md[j].kind = "heading"
                THEN <<"<", "h", Digits[md[j].level + 1], " ", "i", "d", "=", "\"">>
                     \o links[start + HeadingRank(md, j)].anchor \o <<"\"", ">">>
                     \o Concat([i \in 1..Len(md[j].items) |-> ItemHtml(md[j].items[i])])
                     \o <<"<", "/", "h", Digits[md[j].level + 1], ">">>
                ELSE BlockHtml(md[j])
        IN  (\E j \in 1..Len(md) : md[j].kind = "raw")
                => html_content = Concat([j \in 1..Len(md) |-> Out(j)])

\* The segments of the path the trail is built from.
ShownParts == LET Kept(el) == KeepsPart(el, index_file) IN SelectSeq(crumb_path, Kept)

\* The URL /home/s1/.../sk/ of the k-th of the segments.
RECURSIVE CumulativeUrl(_, _)
CumulativeUrl(parts, k) ==
    IF k = 0 THEN <<"/", "h", "o", "m", "e", "/">>
    ELSE CumulativeUrl(parts, k - 1) \o urlencode(parts[k]) \o <<"/">>

\* The lengths get_breadcrumb_name_and_url_len computes are those of the
\* names and URLs of the trail.
LengthsMatch(parts, trail) ==
    LET lens == get_breadcrumb_name_and_url_len(parts)
        links == SelectSeq(trail, LAMBDA c : c.href # None)
    IN  /\ lens.name_len
              = Len(Concat([i \in 1..(Len(trail) - 1) |-> trail[i + 1].name]))
        /\ lens.url_len = Len(Concat([i \in 1..Len(links) |-> links[i].href[1]]))
        /\ lens.prev_url_len = Len(links[Len(links)].href[1])

\* C32: with s1..sn the segments of the path without the index file, the
\* crumb of every sk but the last links to /home/s1/.../sk/ (each segment
\* URL-encoded), the last segment is a label without a link, and the
\* pre-computed name and URL lengths are those of the strings built.
C32_CumulativeUrls ==
    breadcrumbs # None =>
        LET parts == ShownParts
            trail == breadcrumbs[1]
        IN  /\ Len(trail) = Len(parts) + 1
            /\ \A k \in 1..Len(parts) :
                  /\ trail[k + 1].name = parts[k]
                  /\ trail[k + 1].href =
                        IF k < Len(parts) THEN Some(CumulativeUrl(parts, k)) ELSE None
            /\ LengthsMatch(parts, trail)

\* The number of pieces of one kind among the first k pieces of the list.
CountOf(html, kind, k) == Cardinality({i \in 1..k : html[i].kind = kind})

\* The table of contents of a non-empty list of links has been emitted.
C33_Witness ==
    /\ stage = "listed"
    /\ Len(scraper.internal_links) = MaxLinks
    /\ CountOf(html_content, "list_prefix", Len(html_content)) > 1

\* C33: the table of contents generate_anchor_html emits is well nested:
\* no item is preceded by more than one newly opened list, every </ul> closes
\* a list that is open, and there are as many <ul> as </ul>.
C33_TocIsWellNested ==
    stage = "listed" =>
        LET html == html_content
            n == Len(html)
        IN  /\ \A k \in 1..(n - 1) :
                  ~(html[k] = list_prefix /\ html[k + 1] = list_prefix)
            /\ \A k \in 1..n :
                  CountOf(html, "list_suffix", k) <= CountOf(html, "list_prefix", k)
            /\ CountOf(html, "list_prefix", n) = CountOf(html, "list_suffix", n)

\* The bytes of the snippet the ranges of a list cover.
Covered(ranges) ==
    {k \in 0..MaxSnippet : \E i \in 1..Len(ranges) :
                              ranges[i].start <= k /\ k < ranges[i].end}

\* C34: normalize_ranges returns non-empty ranges, each beginning after the
\* end of the one before it, that cover exactly the bytes the input ranges
\* cover.
C34_RangesMergedExactly ==
    spans # None =>
        LET out == spans[1]
        IN  /\ \A i \in 1..Len(out) : out[i].start < out[i].end
            /\ \A i \in 1..(Len(out) - 1) : out[i].end < out[i + 1].start
            /\ Covered(out) = Covered(highlights)

\* The names of a list of links.
NamesOf(links) == {links[i].name : i \in 1..Len(links)}

\* C35: the folders find_peers returns for a document of the directory are
\* the subfolders of the directory that hold Markdown, and no other.
C35_FoldersHoldMarkdown ==
    (peers # None /\ peers[1].of \in siblings) =>
        NamesOf(peers[1].info.folders)
            = {f.name : f \in {g \in subfolders : g.markdown}}

\* C36: when the path of the document cannot be canonicalized (no such file
\* is on disk), find_peers still returns the files and folders of the
\* directory.
C36_FallsBackToOriginalPath ==
    (peers # None /\ peers[1].of \notin siblings) =>
        /\ NamesOf(peers[1].info.files)
              = {file_manager.files[i] : i \in 1..Len(file_manager.files)}
                   \ {peers[1].of}
        /\ NamesOf(peers[1].info.folders)
              = {file_manager.folders[i] : i \in 1..Len(file_manager.folders)}

\* C37: a Compact signal the compactor takes when current_size is at or below
\* max_size changes neither the map nor the counter.
C37_CompactAtOrBelowCapIsNoOp ==
    [][(CompactStep /\ current_size <= MaxCacheSize)
          => (cache' = cache /\ current_size' = current_size)]_vars

\* C38: a Markdown file modified after scan_directory has begun and not
\* modified again is eventually in the committed index with its latest
\* content.
C38_NoChangeLostAroundStartup ==
    \A p \in MdPaths : \A v \in 2..MaxVersion :
        <>[](disk[p] = v) => <>(Doc(p, v) \in index)

\* A request waits in send with the signal channel full while the compactor
\* runs.
C39_Witness ==
    /\ compactor = "running"
    /\ Len(signal_q) = SignalCapacity
    /\ \E h \in Handlers : req[h].pc \in {"send_clean", "send_compact"}

\* Handler h is inside a call of ResultCache::get or ResultCache::add.
InCall(h) ==
    req[h].pc \in {"get_lookup", "send_clean",
                   "add_modtime", "add_store", "send_compact"}

\* C39: under fair scheduling every call of get and of add returns: a
\* handler that is inside a call is eventually outside it, whether the
\* signal channel is full, the compactor runs or it has exited.
C39_CallsReturn ==
    \A h \in Handlers : InCall(h) ~> ~InCall(h)
====
